---- MODULE Spec2Model ----
(***************************************************************************)
(* Med Safety Engine: the orchestrator MED_SAFETY_ENGINE, the six rule     *)
(* modules it invokes and the knowledge tables they read.                  *)
(*                                                                         *)
(* Free-text values (medication names, doses, ICD codes) are sequences of  *)
(* one-character strings, so that toLowerCase, includes and slice are      *)
(* computed character by character.  Closed vocabularies (alert codes,     *)
(* severities, therapeutic classes, effect tags, condition keys) are       *)
(* TLA+ strings, compared by equality only.                                *)
(***************************************************************************)
EXTENDS Integers, Sequences, FiniteSets, TLC

\* ------------------------------------------------------------------------
\* State
\* ------------------------------------------------------------------------
VARIABLES
    patient_data,       \* the argument of the running call, defaults applied
    pc,                 \* the stage of MED_SAFETY_ENGINE the call is at
    all_alerts,         \* let all_alerts
    function_results,   \* const function_results
    timing,             \* const timing
    result,             \* the object the call returned
    now,                \* the reading of Date.now(), in milliseconds
    today,              \* the reading of new Date(), in days
    unknown_drugs,      \* the tracker: sessionLogged and the log file
    calls,              \* the number of calls of the engine started so far
    previous,           \* what the call before this one returned
    call                \* a direct call of an exported function: fn, arg, ret, done

vars == << patient_data, pc, all_alerts, function_results, timing, result, now,
           today, unknown_drugs, calls, previous, call >>


\* ------------------------------------------------------------------------
\* JavaScript values
\* ------------------------------------------------------------------------

\* null / undefined in a string-valued field (name, dose, drug, ICD code)
NullStr == <<"<null>">>

\* null / undefined in a numeric field (patient_age, egfr, weight_kg, a date)
NullNum == 0 - 1

\* an absent drugs_involved list
UndefList == << <<"<undefined>">> >>

\* a truthy value that is not a string (a number) where the code expects a
\* string: calling toLowerCase on it is a TypeError
NotAString == <<"<number>">>

\* null where the code expects an object
NullObject == [ null |-> TRUE ]

\* a JavaScript value expected to be a list: an array with its items, or
\* something that is not iterable and has no array methods
ListOf(items) == [ array |-> TRUE, items |-> items ]

NotAList == [ array |-> FALSE, items |-> <<>> ]

\* a value that is a function or an object, not a string
NotText == <<"<object>">>

\* names every object literal answers to without declaring them: the members
\* it inherits from Object.prototype
InheritedKeys ==
    { <<"c","o","n","s","t","r","u","c","t","o","r">>, <<"t","o","S","t","r","i","n","g">>, <<"v","a","l","u","e","O","f">>, <<"h","a","s","O","w","n","P","r","o","p","e","r","t","y">>, <<"_","_","p","r","o","t","o","_","_">> }

\* typeof x === "string"
IsText(x) == x # NullStr /\ x # NotAString /\ x # NotText

UpperChars == <<"A","B","C","D","E","F","G","H","I","J","K","L","M",
                "N","O","P","Q","R","S","T","U","V","W","X","Y","Z">>

LowerChars == <<"a","b","c","d","e","f","g","h","i","j","k","l","m",
                "n","o","p","q","r","s","t","u","v","w","x","y","z">>

DigitChars == <<"0","1","2","3","4","5","6","7","8","9">>

toLowerChar(c) ==
    IF \E i \in 1..26 : UpperChars[i] = c
    THEN LowerChars[CHOOSE i \in 1..26 : UpperChars[i] = c]
    ELSE c

toUpperChar(c) ==
    IF \E i \in 1..26 : LowerChars[i] = c
    THEN UpperChars[CHOOSE i \in 1..26 : LowerChars[i] = c]
    ELSE c

\* String.prototype.toLowerCase
toLowerCase(s) == [i \in 1..Len(s) |-> toLowerChar(s[i])]

\* String.prototype.toUpperCase
toUpperCase(s) == [i \in 1..Len(s) |-> toUpperChar(s[i])]

\* String.prototype.includes: the empty string is included in every string
includes(s, sub) ==
    \E i \in 0..(Len(s) - Len(sub)) : SubSeq(s, i + 1, i + Len(sub)) = sub

\* (x || ""): null, undefined and "" all give ""
OrEmpty(x) == IF x = NullStr THEN <<>> ELSE x

\* JavaScript truthiness of a number-or-null: null and 0 are falsy
Truthy(n) == n # NullNum /\ n # 0

\* ToNumber of a number-or-null in a relational comparison: null is 0
Num(n) == IF n = NullNum THEN 0 ELSE n

\* Array.prototype.map over a sequence
Map(s, F(_)) == [i \in 1..Len(s) |-> F(s[i])]

\* Array.prototype.some
Some(s, T(_)) == \E i \in 1..Len(s) : T(s[i])

MinOf(S) == CHOOSE x \in S : \A y \in S : x <= y

isDigit(c) == \E i \in 1..10 : DigitChars[i] = c

digitValue(c) == (CHOOSE i \in 1..10 : DigitChars[i] = c) - 1

\* a regular-expression word character [A-Za-z0-9_]
isWordChar(c) ==
    \/ \E i \in 1..26 : LowerChars[i] = c \/ UpperChars[i] = c
    \/ isDigit(c)
    \/ c = "_"

\* s.match(/\b(w)\b/): w occurs in s with a word boundary on both sides
matchesWord(s, w) ==
    \E i \in 0..(Len(s) - Len(w)) :
        /\ SubSeq(s, i + 1, i + Len(w)) = w
        /\ (i = 0 \/ ~isWordChar(s[i]))
        /\ (i + Len(w) = Len(s) \/ ~isWordChar(s[i + Len(w) + 1]))

\* ------------------------------------------------------------------------
\* The alert-code registry (constants/alert_codes.js): every code the rule
\* modules and the orchestrator refer to is registered under its own name.
\* ------------------------------------------------------------------------
ALERT_CODES ==
    { "SYSTEM_FUNCTION_ERROR", "VALIDATION_EGFR_MISSING",
      "RENAL_METFORMIN_CONTRAINDICATED", "RENAL_METFORMIN_REDUCE",
      "RENAL_GABAPENTINOID_ADJUST", "RENAL_DOAC_ADJUST",
      "RENAL_DOAC_CONTRAINDICATED", "RENAL_NSAID_AVOID",
      "RENAL_GLYBURIDE_AVOID", "RENAL_NITROFURANTOIN_AVOID",
      "TRIPLE_WHAMMY_PRESENT", "TRIPLE_WHAMMY_NSAID_CKD",
      "TRIPLE_WHAMMY_VOLUME_DEPLETION", "DUAL_RAAS_ACE_ARB",
      "DUAL_RAAS_ARNI_OVERLAP",
      "OPIOID_BENZO_COMBINATION", "OPIOID_CNS_POLYPHARMACY",
      "OPIOID_HIGH_MME", "OPIOID_NALOXONE_NEEDED", "OPIOID_ER_NAIVE",
      "ANTITHROMB_DUAL_ANTICOAG", "ANTITHROMB_TRIPLE_THERAPY",
      "ANTITHROMB_DOAC_DOSE_CHECK", "ANTITHROMB_HIGH_BLEED_RISK",
      "ANTITHROMB_NO_INDICATION",
      "SEROTONIN_MAOI_COMBINATION", "SEROTONIN_WASHOUT_VIOLATION",
      "SEROTONIN_HIGH_RISK", "SEROTONIN_MODERATE_RISK",
      "BEERS_PIM_TABLE1", "BEERS_DISEASE_INTERACTION", "BEERS_ACB_HIGH",
      "BEERS_CNS_POLYPHARMACY", "BEERS_PPI_LONG_TERM" }

\* a lookup without the || fallback, which leaves the code of an unregistered
\* key undefined: C30 must fail for it
AlertCodeNoFallback(key, fallback) == key

\* ALERT_CODES[key] || fallback
AlertCodeOr(key, fallback) == IF key \in ALERT_CODES THEN key ELSE fallback

\* An alert as a rule module returns it.  message stands for the alert's
\* descriptive texts (message, reason, action, ...): the template that
\* produced them and the values substituted into it.
Alert(code, drug, drugs_involved, severity, message) ==
    [ alert_code |-> code, drug |-> drug, drugs_involved |-> drugs_involved,
      severity |-> severity, message |-> message ]

names(meds) == [i \in 1..Len(meds) |-> meds[i].name]

\* what a rule module call ends in: a returned {alerts, metadata} or a throw
Returned(alerts, metadata) ==
    [ ok |-> TRUE, alerts |-> alerts, metadata |-> metadata, error |-> "" ]

Thrown(error) == [ ok |-> FALSE, alerts |-> <<>>, metadata |-> <<>>, error |-> error ]

\* ------------------------------------------------------------------------
\* FUNCTION 1: RENAL DOSING
\* ------------------------------------------------------------------------
RENAL_DRUG_RULES == <<
  [ drug |-> <<"m","e","t","f","o","r","m","i","n">>, thresholds |-> <<
      [egfr_max |-> 30, action |-> "CONTRAINDICATED", severity |-> "CRITICAL", code |-> "RENAL_METFORMIN_CONTRAINDICATED"],
      [egfr_max |-> 45, action |-> "REDUCE", severity |-> "HIGH", code |-> "RENAL_METFORMIN_REDUCE"],
      [egfr_max |-> 60, action |-> "CAUTION", severity |-> "MODERATE", code |-> ""] >> ],
  [ drug |-> <<"g","a","b","a","p","e","n","t","i","n">>, thresholds |-> <<
      [egfr_max |-> 15, action |-> "REDUCE", severity |-> "HIGH", code |-> "RENAL_GABAPENTINOID_ADJUST"],
      [egfr_max |-> 30, action |-> "REDUCE", severity |-> "HIGH", code |-> "RENAL_GABAPENTINOID_ADJUST"],
      [egfr_max |-> 60, action |-> "REDUCE", severity |-> "MODERATE", code |-> ""] >> ],
  [ drug |-> <<"p","r","e","g","a","b","a","l","i","n">>, thresholds |-> <<
      [egfr_max |-> 15, action |-> "REDUCE", severity |-> "HIGH", code |-> "RENAL_GABAPENTINOID_ADJUST"],
      [egfr_max |-> 30, action |-> "REDUCE", severity |-> "HIGH", code |-> "RENAL_GABAPENTINOID_ADJUST"],
      [egfr_max |-> 60, action |-> "REDUCE", severity |-> "MODERATE", code |-> ""] >> ],
  [ drug |-> <<"a","p","i","x","a","b","a","n">>, thresholds |-> <<
      [egfr_max |-> 15, action |-> "CAUTION", severity |-> "HIGH", code |-> "RENAL_DOAC_ADJUST"],
      [egfr_max |-> 25, action |-> "REDUCE", severity |-> "HIGH", code |-> "RENAL_DOAC_ADJUST"] >> ],
  [ drug |-> <<"r","i","v","a","r","o","x","a","b","a","n">>, thresholds |-> <<
      [egfr_max |-> 15, action |-> "AVOID", severity |-> "CRITICAL", code |-> "RENAL_DOAC_CONTRAINDICATED"],
      [egfr_max |-> 50, action |-> "REDUCE", severity |-> "HIGH", code |-> "RENAL_DOAC_ADJUST"] >> ],
  [ drug |-> <<"d","a","b","i","g","a","t","r","a","n">>, thresholds |-> <<
      [egfr_max |-> 30, action |-> "AVOID", severity |-> "CRITICAL", code |-> "RENAL_DOAC_CONTRAINDICATED"],
      [egfr_max |-> 50, action |-> "REDUCE", severity |-> "HIGH", code |-> "RENAL_DOAC_ADJUST"] >> ],
  [ drug |-> <<"e","d","o","x","a","b","a","n">>, thresholds |-> <<
      [egfr_max |-> 15, action |-> "AVOID", severity |-> "CRITICAL", code |-> "RENAL_DOAC_CONTRAINDICATED"],
      [egfr_max |-> 50, action |-> "REDUCE", severity |-> "HIGH", code |-> "RENAL_DOAC_ADJUST"] >> ],
  [ drug |-> <<"i","b","u","p","r","o","f","e","n">>, thresholds |-> <<
      [egfr_max |-> 30, action |-> "AVOID", severity |-> "HIGH", code |-> "RENAL_NSAID_AVOID"],
      [egfr_max |-> 60, action |-> "CAUTION", severity |-> "MODERATE", code |-> ""] >> ],
  [ drug |-> <<"n","a","p","r","o","x","e","n">>, thresholds |-> <<
      [egfr_max |-> 30, action |-> "AVOID", severity |-> "HIGH", code |-> "RENAL_NSAID_AVOID"],
      [egfr_max |-> 60, action |-> "CAUTION", severity |-> "MODERATE", code |-> ""] >> ],
  [ drug |-> <<"c","e","l","e","c","o","x","i","b">>, thresholds |-> <<
      [egfr_max |-> 30, action |-> "AVOID", severity |-> "HIGH", code |-> "RENAL_NSAID_AVOID"] >> ],
  [ drug |-> <<"g","l","y","b","u","r","i","d","e">>, thresholds |-> <<
      [egfr_max |-> 60, action |-> "AVOID", severity |-> "HIGH", code |-> "RENAL_GLYBURIDE_AVOID"] >> ],
  [ drug |-> <<"n","i","t","r","o","f","u","r","a","n","t","o","i","n">>, thresholds |-> <<
      [egfr_max |-> 30, action |-> "AVOID", severity |-> "HIGH", code |-> "RENAL_NITROFURANTOIN_AVOID"] >> ] >>

getCKDStage(egfr) ==
    IF egfr >= 90 THEN "1"
    ELSE IF egfr >= 60 THEN "2"
    ELSE IF egfr >= 45 THEN "3a"
    ELSE IF egfr >= 30 THEN "3b"
    ELSE IF egfr >= 15 THEN "4"
    ELSE "5"

\* a threshold loop without its break, which leaves the alert of the last
\* threshold with egfr < egfr_max as the medication's: C23 must fail for it
RenalThresholdAlertLast(med, egfr) ==
    LET name_lower == toLowerCase(OrEmpty(med.name))
        matching == { r \in 1..Len(RENAL_DRUG_RULES) :
                        includes(name_lower, RENAL_DRUG_RULES[r].drug) }
    IN  IF matching = {} THEN <<>>
        ELSE LET rules == RENAL_DRUG_RULES[MinOf(matching)]
                 below == { t \in 1..Len(rules.thresholds) :
                              egfr < rules.thresholds[t].egfr_max }
             IN  IF below = {} THEN <<>>
                 ELSE LET threshold == rules.thresholds[CHOOSE t \in below : \A u \in below : t >= u]
                      IN  << Alert(AlertCodeOr(threshold.code, "RENAL_GABAPENTINOID_ADJUST"),
                                   med.name, UndefList, threshold.severity,
                                   <<"renal threshold", threshold.action, threshold.egfr_max>>) >>

\* the threshold alert of one medication: the first rule whose drug name the
\* medication name includes, and in it the first threshold with egfr < egfr_max
RenalThresholdAlert(med, egfr) ==
    LET name_lower == toLowerCase(OrEmpty(med.name))
        matching == { r \in 1..Len(RENAL_DRUG_RULES) :
                        includes(name_lower, RENAL_DRUG_RULES[r].drug) }
    IN  IF matching = {} THEN <<>>
        ELSE LET rules == RENAL_DRUG_RULES[MinOf(matching)]
                 below == { t \in 1..Len(rules.thresholds) :
                              egfr < rules.thresholds[t].egfr_max }
             IN  IF below = {} THEN <<>>
                 ELSE LET threshold == rules.thresholds[MinOf(below)]
                      IN  << Alert(AlertCodeOr(threshold.code, "RENAL_GABAPENTINOID_ADJUST"),
                                   med.name, UndefList, threshold.severity,
                                   <<"renal threshold", threshold.action, threshold.egfr_max>>) >>

RECURSIVE RenalLoop(_, _, _, _)
RenalLoop(medications, i, egfr, acc) ==
    IF i > Len(medications) THEN acc
    ELSE LET med == medications[i]
             hit == RenalThresholdAlert(med, egfr)
             alerts1 == acc.alerts \o hit
             classHit ==
                 IF /\ med.class \in {"NSAID", "COX2_inhibitor"}
                    /\ egfr < 30
                    /\ ~ \E k \in 1..Len(alerts1) : alerts1[k].drug = med.name
                 THEN << Alert("RENAL_NSAID_AVOID", med.name, UndefList, "HIGH",
                               <<"renal NSAID class">>) >>
                 ELSE <<>>
         IN  RenalLoop(medications, i + 1, egfr,
                       [ alerts |-> alerts1 \o classHit,
                         flagged |-> acc.flagged + Len(hit) ])

RENAL_DOSING_CHECK(input) ==
    IF input.egfr = NullNum
    THEN Returned(<< Alert("VALIDATION_EGFR_MISSING", NullStr, UndefList, "INFO",
                           <<"eGFR not provided">>) >>,
                  [ checked |-> FALSE ])
    ELSE IF ~input.medications.array
    THEN Thrown("medications is not iterable")
    ELSE IF Some(input.medications.items, LAMBDA m : m.name = NotAString)
    THEN Thrown("(med.name || \"\").toLowerCase is not a function")
    ELSE LET r == RenalLoop(input.medications.items, 1, input.egfr,
                            [ alerts |-> <<>>, flagged |-> 0 ])
         IN  Returned(r.alerts,
                      [ checked |-> TRUE, egfr |-> input.egfr,
                        ckd_stage |-> getCKDStage(input.egfr),
                        drugs_flagged |-> r.flagged ])

\* ------------------------------------------------------------------------
\* FUNCTION 2: TRIPLE WHAMMY
\* ------------------------------------------------------------------------
RAAS_CLASSES == {"ACE_inhibitor", "ARB", "ARNI"}

DIURETIC_CLASSES == {"thiazide", "loop_diuretic", "K_sparing_diuretic"}

NSAID_CLASSES == {"NSAID", "COX2_inhibitor"}

TRIPLE_WHAMMY_CHECK(input) ==
    IF ~input.medications.array THEN Thrown("medications.filter is not a function")
    ELSE IF input.active_illness = NullObject
    THEN Thrown("Cannot read properties of null (reading 'volume_depleted')")
    ELSE
    LET medications == input.medications.items
        active_illness == input.active_illness
        egfr == input.egfr
        raas_meds == SelectSeq(medications, LAMBDA m : m.class \in RAAS_CLASSES)
        diuretic_meds == SelectSeq(medications, LAMBDA m : m.class \in DIURETIC_CLASSES)
        nsaid_meds == SelectSeq(medications, LAMBDA m : m.class \in NSAID_CLASSES)
        has_raas == Len(raas_meds) > 0
        has_diuretic == Len(diuretic_meds) > 0
        has_nsaid == Len(nsaid_meds) > 0
        has_volume_risk ==
            \/ active_illness.volume_depleted
            \/ active_illness.vomiting_diarrhea
            \/ active_illness.sepsis
            \/ active_illness.recent_surgery
            \/ active_illness.acute_infection
        hold_meds == raas_meds \o diuretic_meds
        ace_count == Len(SelectSeq(raas_meds, LAMBDA m : m.class = "ACE_inhibitor"))
        arb_count == Len(SelectSeq(raas_meds, LAMBDA m : m.class = "ARB"))
        arni_count == Len(SelectSeq(raas_meds, LAMBDA m : m.class = "ARNI"))
        a1 == IF has_raas /\ has_diuretic /\ has_nsaid
              THEN << Alert("TRIPLE_WHAMMY_PRESENT", NullStr,
                            names(raas_meds) \o names(diuretic_meds) \o names(nsaid_meds),
                            "HIGH", <<"triple whammy">>) >>
              ELSE <<>>
        a2 == IF has_nsaid /\ Truthy(egfr) /\ egfr < 60
              THEN << Alert("TRIPLE_WHAMMY_NSAID_CKD", NullStr, names(nsaid_meds),
                            "HIGH", <<"NSAID in CKD">>) >>
              ELSE <<>>
        a3 == IF has_volume_risk /\ (has_raas \/ has_diuretic)
              THEN << Alert("TRIPLE_WHAMMY_VOLUME_DEPLETION", NullStr, names(hold_meds),
                            IF active_illness.volume_depleted \/ active_illness.sepsis
                            THEN "CRITICAL" ELSE "HIGH",
                            <<"sick day protocol">>) >>
              ELSE <<>>
        a4 == IF ace_count > 0 /\ arb_count > 0
              THEN << Alert("DUAL_RAAS_ACE_ARB", NullStr, names(raas_meds), "HIGH",
                            <<"dual RAAS blockade">>) >>
              ELSE <<>>
        a5 == IF arni_count > 0 /\ (ace_count > 0 \/ arb_count > 0)
              THEN << Alert("DUAL_RAAS_ARNI_OVERLAP", NullStr, names(raas_meds), "CRITICAL",
                            <<"ARNI + ACE/ARB">>) >>
              ELSE <<>>
    IN  Returned(a1 \o a2 \o a3 \o a4 \o a5,
                 [ has_triple_whammy |-> has_raas /\ has_diuretic /\ has_nsaid,
                   has_dual_raas |-> (ace_count > 0 /\ arb_count > 0)
                                     \/ (arni_count > 0 /\ (ace_count > 0 \/ arb_count > 0)),
                   sick_day_triggered |-> has_volume_risk /\ (has_raas \/ has_diuretic),
                   raas_count |-> Len(raas_meds),
                   diuretic_count |-> Len(diuretic_meds),
                   nsaid_count |-> Len(nsaid_meds) ])

\* ------------------------------------------------------------------------
\* FUNCTION 3: OPIOID SAFETY
\* ------------------------------------------------------------------------

\* MME_FACTORS in declaration order; base is key.split("_")[0], factor is
\* in hundredths (codeine 0.15 is 15)
MME_FACTORS == <<
  [key |-> "morphine", base |-> <<"m","o","r","p","h","i","n","e">>, factor |-> 100],
  [key |-> "hydrocodone", base |-> <<"h","y","d","r","o","c","o","d","o","n","e">>, factor |-> 100],
  [key |-> "oxycodone", base |-> <<"o","x","y","c","o","d","o","n","e">>, factor |-> 150],
  [key |-> "hydromorphone", base |-> <<"h","y","d","r","o","m","o","r","p","h","o","n","e">>, factor |-> 400],
  [key |-> "oxymorphone", base |-> <<"o","x","y","m","o","r","p","h","o","n","e">>, factor |-> 300],
  [key |-> "methadone_1_20", base |-> <<"m","e","t","h","a","d","o","n","e">>, factor |-> 400],
  [key |-> "methadone_21_40", base |-> <<"m","e","t","h","a","d","o","n","e">>, factor |-> 800],
  [key |-> "methadone_41_60", base |-> <<"m","e","t","h","a","d","o","n","e">>, factor |-> 1000],
  [key |-> "methadone_61_plus", base |-> <<"m","e","t","h","a","d","o","n","e">>, factor |-> 1200],
  [key |-> "fentanyl_patch", base |-> <<"f","e","n","t","a","n","y","l">>, factor |-> 240],
  [key |-> "codeine", base |-> <<"c","o","d","e","i","n","e">>, factor |-> 15],
  [key |-> "tramadol", base |-> <<"t","r","a","m","a","d","o","l">>, factor |-> 10],
  [key |-> "tapentadol", base |-> <<"t","a","p","e","n","t","a","d","o","l">>, factor |-> 40],
  [key |-> "buprenorphine", base |-> <<"b","u","p","r","e","n","o","r","p","h","i","n","e">>, factor |-> 0] >>

OPIOID_CLASSES == {"opioid", "opioid_long_acting"}

OPIOID_NAMES == << <<"m","o","r","p","h","i","n","e">>, <<"h","y","d","r","o","c","o","d","o","n","e">>, <<"o","x","y","c","o","d","o","n","e">>, <<"h","y","d","r","o","m","o","r","p","h","o","n","e">>,
  <<"o","x","y","m","o","r","p","h","o","n","e">>, <<"f","e","n","t","a","n","y","l">>, <<"c","o","d","e","i","n","e">>, <<"t","r","a","m","a","d","o","l">>, <<"t","a","p","e","n","t","a","d","o","l">>, <<"m","e","t","h","a","d","o","n","e">>,
  <<"b","u","p","r","e","n","o","r","p","h","i","n","e">>, <<"m","e","p","e","r","i","d","i","n","e">>, <<"n","o","r","c","o">>, <<"v","i","c","o","d","i","n">>, <<"p","e","r","c","o","c","e","t">>, <<"d","i","l","a","u","d","i","d">>,
  <<"o","p","a","n","a">>, <<"d","u","r","a","g","e","s","i","c">>, <<"n","u","c","y","n","t","a">>, <<"u","l","t","r","a","m">> >>

BENZO_NAMES == << <<"a","l","p","r","a","z","o","l","a","m">>, <<"l","o","r","a","z","e","p","a","m">>, <<"d","i","a","z","e","p","a","m">>, <<"c","l","o","n","a","z","e","p","a","m">>,
  <<"t","e","m","a","z","e","p","a","m">>, <<"t","r","i","a","z","o","l","a","m">>, <<"m","i","d","a","z","o","l","a","m">>, <<"c","h","l","o","r","d","i","a","z","e","p","o","x","i","d","e">>, <<"o","x","a","z","e","p","a","m">>,
  <<"c","l","o","r","a","z","e","p","a","t","e">>, <<"f","l","u","r","a","z","e","p","a","m">>, <<"x","a","n","a","x">>, <<"a","t","i","v","a","n">>, <<"v","a","l","i","u","m">>, <<"k","l","o","n","o","p","i","n">>,
  <<"r","e","s","t","o","r","i","l">>, <<"h","a","l","c","i","o","n">> >>

Z_DRUG_NAMES == << <<"z","o","l","p","i","d","e","m">>, <<"e","s","z","o","p","i","c","l","o","n","e">>, <<"z","a","l","e","p","l","o","n">>, <<"a","m","b","i","e","n">>, <<"l","u","n","e","s","t","a">>,
  <<"s","o","n","a","t","a">> >>

GABAPENTINOID_NAMES == << <<"g","a","b","a","p","e","n","t","i","n">>, <<"p","r","e","g","a","b","a","l","i","n">>, <<"n","e","u","r","o","n","t","i","n">>, <<"l","y","r","i","c","a">> >>

MUSCLE_RELAXANT_NAMES == << <<"c","y","c","l","o","b","e","n","z","a","p","r","i","n","e">>, <<"c","a","r","i","s","o","p","r","o","d","o","l">>, <<"m","e","t","h","o","c","a","r","b","a","m","o","l">>,
  <<"t","i","z","a","n","i","d","i","n","e">>, <<"b","a","c","l","o","f","e","n">>, <<"o","r","p","h","e","n","a","d","r","i","n","e">>, <<"m","e","t","a","x","a","l","o","n","e">>, <<"f","l","e","x","e","r","i","l">>, <<"s","o","m","a">>,
  <<"r","o","b","a","x","i","n">>, <<"z","a","n","a","f","l","e","x">> >>

matchesDrugList(medName, drugList) ==
    LET name == toLowerCase(OrEmpty(medName))
    IN  \E i \in 1..Len(drugList) : includes(name, drugList[i])

RECURSIVE readDigits(_, _, _)
\* the value of the maximal run of digits of s from position i, and where it ends
readDigits(s, i, acc) ==
    IF i <= Len(s) /\ isDigit(s[i])
    THEN readDigits(s, i + 1, 10 * acc + digitValue(s[i]))
    ELSE <<acc, i>>

\* parseFloat(s.match(/(\d+(?:\.\d+)?)/)[1]) in hundredths (decimals beyond
\* the second are cut); NullNum when s holds no digit
parseDose(s) ==
    LET digitsAt == { i \in 1..Len(s) : isDigit(s[i]) }
    IN  IF digitsAt = {} THEN NullNum
        ELSE LET whole == readDigits(s, MinOf(digitsAt), 0)
                 j == whole[2]
                 hasFraction == /\ j + 1 <= Len(s)
                                /\ s[j] = "."
                                /\ isDigit(s[j + 1])
                 tenths == IF hasFraction THEN digitValue(s[j + 1]) ELSE 0
                 hundredths == IF hasFraction /\ j + 2 <= Len(s) /\ isDigit(s[j + 2])
                               THEN digitValue(s[j + 2]) ELSE 0
             IN  100 * whole[1] + 10 * tenths + hundredths

freqMult(dose_str) ==
    IF includes(dose_str, <<"b","i","d">>) \/ includes(dose_str, <<"q","1","2">>) \/ includes(dose_str, <<"t","w","i","c","e">>) THEN 2
    ELSE IF includes(dose_str, <<"t","i","d">>) \/ includes(dose_str, <<"q","8">>) \/ includes(dose_str, <<"t","h","r","e","e">>) THEN 3
    ELSE IF includes(dose_str, <<"q","i","d">>) \/ includes(dose_str, <<"q","6">>) \/ includes(dose_str, <<"f","o","u","r">>) THEN 4
    ELSE IF includes(dose_str, <<"q","4">>) THEN 6
    ELSE 1

\* MME of one medication in units of 1/10000 MME (dose in hundredths times
\* factor in hundredths)
calculateMME(med) ==
    LET name_lower == toLowerCase(OrEmpty(med.name))
        dose_str == toLowerCase(OrEmpty(med.dose))
        dose_num == parseDose(dose_str)
        freq_mult == freqMult(dose_str)
        matching == { k \in 1..Len(MME_FACTORS) : includes(name_lower, MME_FACTORS[k].base) }
    IN  IF dose_num = NullNum THEN 0
        ELSE IF matching = {} THEN 0
        ELSE LET entry == MME_FACTORS[MinOf(matching)]
                 daily_dose == dose_num * freq_mult
             IN  IF /\ entry.key = "fentanyl_patch"
                    /\ (includes(name_lower, <<"p","a","t","c","h">>) \/ includes(name_lower, <<"d","u","r","a","g","e","s","i","c">>))
                 THEN dose_num * entry.factor
                 ELSE IF includes(name_lower, <<"m","e","t","h","a","d","o","n","e">>)
                 THEN IF daily_dose <= 2000 THEN daily_dose * 400
                      ELSE IF daily_dose <= 4000 THEN daily_dose * 800
                      ELSE IF daily_dose <= 6000 THEN daily_dose * 1000
                      ELSE daily_dose * 1200
                 ELSE dose_num * entry.factor * freq_mult

RECURSIVE SumMME(_, _)
SumMME(meds, i) == IF i > Len(meds) THEN 0 ELSE calculateMME(meds[i]) + SumMME(meds, i + 1)

isExtendedRelease(m) ==
    \/ m.class = "opioid_long_acting"
    \/ LET n == toLowerCase(OrEmpty(m.name))
       IN  \E w \in { <<"e","r">>, <<"x","r">>, <<"s","r">>, <<"c","r">>, <<"c","o","n","t","i","n">>, <<"d","u","r","a","g","e","s","i","c">>, <<"p","a","t","c","h">> } :
               matchesWord(n, w)

\* the opioids of the list, by class or by name
opioidMeds(medications) ==
    SelectSeq(medications, LAMBDA m :
        m.class \in OPIOID_CLASSES \/ matchesDrugList(m.name, OPIOID_NAMES))

OPIOID_SAFETY_CHECK(input) ==
    IF ~input.medications.array THEN Thrown("medications.filter is not a function")
    ELSE IF Some(input.medications.items, LAMBDA m : m.name = NotAString)
    THEN Thrown("(medName || \"\").toLowerCase is not a function")
    ELSE IF Some(opioidMeds(input.medications.items), LAMBDA m : m.dose = NotAString)
    THEN Thrown("(med.dose || \"\").toLowerCase is not a function")
    ELSE
    LET medications == input.medications.items
        patient_age == input.patient_age
        egfr == input.egfr
        opioid_meds == opioidMeds(medications)
        benzo_meds == SelectSeq(medications, LAMBDA m :
            m.class = "benzodiazepine" \/ matchesDrugList(m.name, BENZO_NAMES))
        z_drug_meds == SelectSeq(medications, LAMBDA m :
            m.class = "Z_drug" \/ matchesDrugList(m.name, Z_DRUG_NAMES))
        gabapentinoid_meds == SelectSeq(medications, LAMBDA m :
            m.class = "gabapentinoid" \/ matchesDrugList(m.name, GABAPENTINOID_NAMES))
        muscle_relaxant_meds == SelectSeq(medications, LAMBDA m :
            m.class = "muscle_relaxant" \/ matchesDrugList(m.name, MUSCLE_RELAXANT_NAMES))
        cns_meds == benzo_meds \o z_drug_meds \o gabapentinoid_meds \o muscle_relaxant_meds
        total_mme == SumMME(opioid_meds, 1)
        total_cns == Len(opioid_meds) + Len(cns_meds)
        a1 == IF Len(opioid_meds) > 0 /\ Len(benzo_meds) > 0
              THEN << Alert("OPIOID_BENZO_COMBINATION", NullStr,
                            names(opioid_meds) \o names(benzo_meds), "CRITICAL",
                            <<"opioid + benzodiazepine">>) >>
              ELSE <<>>
        a2 == IF total_cns >= 3
              THEN << Alert("OPIOID_CNS_POLYPHARMACY", NullStr,
                            names(opioid_meds \o cns_meds), "HIGH",
                            <<"CNS polypharmacy">>) >>
              ELSE <<>>
        a3 == IF total_mme >= 90 * 10000
              THEN << Alert("OPIOID_HIGH_MME", NullStr, UndefList, "HIGH",
                            <<"high opioid dose">>) >>
              ELSE IF total_mme >= 50 * 10000
              THEN << Alert("OPIOID_HIGH_MME", NullStr, UndefList, "MODERATE",
                            <<"moderate opioid dose">>) >>
              ELSE <<>>
        naloxone_criteria ==
            (IF total_mme >= 50 * 10000 THEN <<"MME >= 50">> ELSE <<>>)
            \o (IF Len(benzo_meds) > 0 THEN <<"Concurrent benzodiazepine">> ELSE <<>>)
            \o (IF Len(cns_meds) >= 2 THEN <<"Multiple CNS depressants">> ELSE <<>>)
            \o (IF input.respiratory_disease THEN <<"Respiratory disease">> ELSE <<>>)
            \o (IF Truthy(egfr) /\ egfr < 30 THEN <<"CKD stage 4-5">> ELSE <<>>)
            \o (IF Num(patient_age) >= 65 THEN <<"Age >= 65">> ELSE <<>>)
        a4 == IF Len(naloxone_criteria) > 0
              THEN << Alert("OPIOID_NALOXONE_NEEDED", NullStr, UndefList, "HIGH",
                            <<"naloxone co-prescribing">> \o naloxone_criteria) >>
              ELSE <<>>
        er_opioids == SelectSeq(opioid_meds, isExtendedRelease)
        a5 == IF Len(er_opioids) > 0 /\ input.opioid_naive
              THEN << Alert("OPIOID_ER_NAIVE", NullStr, names(er_opioids), "HIGH",
                            <<"extended-release in opioid-naive">>) >>
              ELSE <<>>
    IN  IF Len(opioid_meds) = 0
        THEN Returned(<<>>, [ has_opioid |-> FALSE ])
        ELSE Returned(a1 \o a2 \o a3 \o a4 \o a5,
                      [ has_opioid |-> TRUE, total_mme |-> total_mme,
                        opioid_count |-> Len(opioid_meds),
                        benzo_count |-> Len(benzo_meds),
                        cns_depressant_count |-> total_cns,
                        naloxone_indicated |-> Len(naloxone_criteria) > 0,
                        naloxone_criteria |-> naloxone_criteria ])

\* ------------------------------------------------------------------------
\* FUNCTION 4: ANTITHROMBOTIC
\* ------------------------------------------------------------------------
ANTICOAGULANT_CLASSES == {"anticoagulant_DOAC", "anticoagulant_warfarin"}

ANTIPLATELET_CLASSES == {"antiplatelet_aspirin", "antiplatelet_P2Y12", "antiplatelet_other"}

\* a day count that grows with every call of the process, as it would if it
\* read state a call leaves behind: C10 must fail for it
daysSinceCounting(dateStr, day) == day - dateStr + calls - 1

\* Math.floor((clock - then) / one day), dates counted in days
daysSince(dateStr, day) == day - dateStr

\* the dose alerts of one DOAC, in the order the code tests the drugs
DoacDoseAlerts(doac, patient_age, weight_kg, egfr) ==
    LET name_lower == toLowerCase(OrEmpty(doac.name))
        dose_lower == toLowerCase(OrEmpty(doac.dose))
        needs_reduction ==
            (IF Num(patient_age) >= 80 THEN 1 ELSE 0)
            + (IF Truthy(weight_kg) /\ weight_kg <= 60 THEN 1 ELSE 0)
            + (IF Truthy(egfr) /\ egfr < 25 THEN 1 ELSE 0)
        apixaban ==
            IF /\ includes(name_lower, <<"a","p","i","x","a","b","a","n">>) \/ includes(name_lower, <<"e","l","i","q","u","i","s">>)
               /\ needs_reduction >= 2
               /\ includes(dose_lower, <<"5">>)
            THEN << Alert("ANTITHROMB_DOAC_DOSE_CHECK", doac.name, UndefList, "HIGH",
                          <<"apixaban dose reduction">>) >>
            ELSE <<>>
        rivaroxaban ==
            IF /\ includes(name_lower, <<"r","i","v","a","r","o","x","a","b","a","n">>) \/ includes(name_lower, <<"x","a","r","e","l","t","o">>)
               /\ Truthy(egfr) /\ egfr <= 50
               /\ includes(dose_lower, <<"2","0">>)
            THEN << Alert("ANTITHROMB_DOAC_DOSE_CHECK", doac.name, UndefList, "HIGH",
                          <<"rivaroxaban dose reduction">>) >>
            ELSE <<>>
        dabigatran ==
            IF /\ includes(name_lower, <<"d","a","b","i","g","a","t","r","a","n">>) \/ includes(name_lower, <<"p","r","a","d","a","x","a">>)
               /\ Truthy(egfr) /\ egfr < 30
            THEN << Alert("ANTITHROMB_DOAC_DOSE_CHECK", doac.name, UndefList, "CRITICAL",
                          <<"dabigatran contraindicated">>) >>
            ELSE <<>>
    IN  apixaban \o rivaroxaban \o dabigatran

RECURSIVE DoacLoop(_, _, _, _, _)
DoacLoop(doac_meds, i, patient_age, weight_kg, egfr) ==
    IF i > Len(doac_meds) THEN <<>>
    ELSE DoacDoseAlerts(doac_meds[i], patient_age, weight_kg, egfr)
         \o DoacLoop(doac_meds, i + 1, patient_age, weight_kg, egfr)

ANTITHROMBOTIC_COMBINATION_CHECK(input, day) ==
    IF ~input.medications.array THEN Thrown("current_medications.some is not a function")
    ELSE IF Some(input.medications.items, LAMBDA m :
                 m.class = "anticoagulant_DOAC" /\ m.name = NotAString)
    THEN Thrown("(doac.name || \"\").toLowerCase is not a function")
    ELSE IF Some(input.medications.items, LAMBDA m :
                 m.class = "anticoagulant_DOAC" /\ m.dose = NotAString)
    THEN Thrown("(doac.dose || \"\").toLowerCase is not a function")
    ELSE
    LET medications == input.medications.items
        patient_age == input.patient_age
        egfr == input.egfr
        recent_pci_date == input.recent_pci_date
        on_chronic_nsaid == Some(medications, LAMBDA m : m.class \in {"NSAID", "COX2_inhibitor"})
        anticoag_meds == SelectSeq(medications, LAMBDA m : m.class \in ANTICOAGULANT_CLASSES)
        doac_meds == SelectSeq(anticoag_meds, LAMBDA m : m.class = "anticoagulant_DOAC")
        warfarin_meds == SelectSeq(anticoag_meds, LAMBDA m : m.class = "anticoagulant_warfarin")
        antiplatelet_meds == SelectSeq(medications, LAMBDA m : m.class \in ANTIPLATELET_CLASSES)
        aspirin_meds == SelectSeq(antiplatelet_meds, LAMBDA m : m.class = "antiplatelet_aspirin")
        p2y12_meds == SelectSeq(antiplatelet_meds, LAMBDA m : m.class = "antiplatelet_P2Y12")
        on_anticoag == Len(anticoag_meds) > 0
        on_aspirin == Len(aspirin_meds) > 0
        on_p2y12 == Len(p2y12_meds) > 0
        a1 == IF Len(anticoag_meds) >= 2
              THEN << Alert("ANTITHROMB_DUAL_ANTICOAG", NullStr, names(anticoag_meds),
                            "CRITICAL", <<"dual anticoagulation">>) >>
              ELSE <<>>
        recent_des == /\ recent_pci_date # NullNum
                      /\ daysSince(recent_pci_date, day) < 30
                      /\ input.stent_type = "DES"
        a2 == IF on_anticoag /\ on_aspirin /\ on_p2y12
              THEN << Alert("ANTITHROMB_TRIPLE_THERAPY", NullStr,
                            names(anticoag_meds \o aspirin_meds \o p2y12_meds),
                            IF recent_des THEN "HIGH" ELSE "CRITICAL",
                            <<"triple antithrombotic therapy",
                              IF recent_des THEN "limit to 1-4 weeks" ELSE "minimize duration">>) >>
              ELSE <<>>
        a3 == DoacLoop(doac_meds, 1, patient_age, input.weight_kg, egfr)
        bleed_risk_factors ==
            (IF Num(patient_age) >= 65 THEN <<"Age >= 65">> ELSE <<>>)
            \o (IF input.prior_gi_bleed THEN <<"Prior GI bleed">> ELSE <<>>)
            \o (IF input.liver_disease THEN <<"Liver disease">> ELSE <<>>)
            \o (IF Truthy(egfr) /\ egfr < 30 THEN <<"CKD stage 4-5">> ELSE <<>>)
            \o (IF input.hb_low THEN <<"Anemia">> ELSE <<>>)
            \o (IF on_chronic_nsaid THEN <<"Chronic NSAID use">> ELSE <<>>)
            \o (IF on_anticoag /\ on_aspirin THEN <<"Anticoag + aspirin">> ELSE <<>>)
        a4 == IF (on_anticoag \/ on_aspirin) /\ Len(bleed_risk_factors) >= 3
              THEN << Alert("ANTITHROMB_HIGH_BLEED_RISK", NullStr, UndefList, "HIGH",
                            <<"high bleeding risk">> \o bleed_risk_factors) >>
              ELSE <<>>
        a5 == IF on_anticoag /\ ~input.atrial_fibrillation /\ recent_pci_date = NullNum
              THEN << Alert("ANTITHROMB_NO_INDICATION", NullStr, names(anticoag_meds),
                            "MODERATE", <<"verify indication">>) >>
              ELSE <<>>
    IN  Returned(a1 \o a2 \o a3 \o a4 \o a5,
                 [ on_anticoagulant |-> on_anticoag,
                   on_doac |-> Len(doac_meds) > 0,
                   on_warfarin |-> Len(warfarin_meds) > 0,
                   on_dual_antiplatelet |-> on_aspirin /\ on_p2y12,
                   on_triple_therapy |-> on_anticoag /\ on_aspirin /\ on_p2y12,
                   anticoag_count |-> Len(anticoag_meds),
                   antiplatelet_count |-> Len(antiplatelet_meds) ])

\* ------------------------------------------------------------------------
\* FUNCTION 5: SEROTONIN SYNDROME
\* ------------------------------------------------------------------------
SEROTONIN_DRUGS ==
    [ high |-> {"MAOI", "SSRI", "SNRI", "methylene_blue", "linezolid"},
      moderate |-> {"TCA", "tramadol", "fentanyl", "meperidine", "tapentadol",
                    "trazodone", "mirtazapine", "buspirone", "lithium", "St_Johns_wort"},
      lower |-> {"triptan", "ondansetron", "metoclopramide", "cyclobenzaprine",
                 "dextromethorphan", "carbamazepine", "valproate"} ]

\* MAOI_WASHOUT in declaration order
MAOI_WASHOUT == <<
  [drug |-> <<"p","h","e","n","e","l","z","i","n","e">>, days |-> 14],
  [drug |-> <<"t","r","a","n","y","l","c","y","p","r","o","m","i","n","e">>, days |-> 14],
  [drug |-> <<"i","s","o","c","a","r","b","o","x","a","z","i","d">>, days |-> 14],
  [drug |-> <<"s","e","l","e","g","i","l","i","n","e">>, days |-> 14],
  [drug |-> <<"r","a","s","a","g","i","l","i","n","e">>, days |-> 14],
  [drug |-> <<"l","i","n","e","z","o","l","i","d">>, days |-> 14],
  [drug |-> <<"m","e","t","h","y","l","e","n","e","_","b","l","u","e">>, days |-> 14],
  [drug |-> <<"f","l","u","o","x","e","t","i","n","e","_","t","o","_","m","a","o","i">>, days |-> 35],
  [drug |-> <<"d","e","f","a","u","l","t">>, days |-> 14] >>

requiredWashout(maoi_drug) ==
    IF includes(maoi_drug, <<"f","l","u","o","x","e","t","i","n","e">>) THEN 35
    ELSE LET hits == { k \in 1..Len(MAOI_WASHOUT) : includes(maoi_drug, MAOI_WASHOUT[k].drug) }
         IN  IF hits = {} THEN 14 ELSE MAOI_WASHOUT[MinOf(hits)].days

\* the list a medication is pushed to by the classification chain
serotoninRisk(med) ==
    LET medClass == med.class
        name == toLowerCase(OrEmpty(med.name))
    IN  IF \/ medClass \in SEROTONIN_DRUGS.high
           \/ includes(name, <<"l","i","n","e","z","o","l","i","d">>)
           \/ includes(name, <<"m","e","t","h","y","l","e","n","e"," ","b","l","u","e">>)
        THEN "high"
        ELSE IF \/ medClass \in SEROTONIN_DRUGS.moderate
                \/ includes(name, <<"t","r","a","m","a","d","o","l">>)
                \/ includes(name, <<"t","r","a","z","o","d","o","n","e">>)
                \/ includes(name, <<"m","i","r","t","a","z","a","p","i","n","e">>)
        THEN "moderate"
        ELSE IF \/ medClass \in SEROTONIN_DRUGS.lower
                \/ includes(name, <<"t","r","i","p","t","a","n">>)
                \/ includes(name, <<"o","n","d","a","n","s","e","t","r","o","n">>)
        THEN "lower"
        ELSE IF medClass = "SSRI" \/ medClass = "SNRI" THEN "high"
        ELSE "none"

isMaoi(m) ==
    \/ m.class = "MAOI"
    \/ /\ m.name # NullStr
       /\ \/ includes(toLowerCase(m.name), <<"l","i","n","e","z","o","l","i","d">>)
          \/ includes(toLowerCase(m.name), <<"m","e","t","h","y","l","e","n","e"," ","b","l","u","e">>)

isTriptan(m) ==
    \/ m.class = "triptan"
    \/ m.name # NullStr /\ includes(toLowerCase(m.name), <<"t","r","i","p","t","a","n">>)

SEROTONIN_SYNDROME_CHECK(input, day) ==
    IF ~input.medications.array THEN Thrown("medications is not iterable")
    ELSE IF Some(input.medications.items, LAMBDA m : m.name = NotAString)
    THEN Thrown("(med.name || \"\").toLowerCase is not a function")
    ELSE IF /\ input.recent_maoi_use.stopped_date # NullNum
            /\ input.recent_maoi_use.drug = NotAString
    THEN Thrown("(recent_maoi_use.drug || \"\").toLowerCase is not a function")
    ELSE
    LET medications == input.medications.items
        egfr == input.egfr
        recent_maoi_use == input.recent_maoi_use
        high_risk == SelectSeq(medications, LAMBDA m : serotoninRisk(m) = "high")
        moderate_risk == SelectSeq(medications, LAMBDA m : serotoninRisk(m) = "moderate")
        lower_risk == SelectSeq(medications, LAMBDA m : serotoninRisk(m) = "lower")
        has_maoi == Some(high_risk, isMaoi)
        other_serotonergics ==
            SelectSeq(high_risk, LAMBDA m : ~isMaoi(m)) \o moderate_risk \o lower_risk
        maoi_drugs == SelectSeq(high_risk, isMaoi)
        a1 == IF has_maoi /\ Len(other_serotonergics) > 0
              THEN << Alert("SEROTONIN_MAOI_COMBINATION", NullStr,
                            names(maoi_drugs \o other_serotonergics), "CRITICAL",
                            <<"MAOI + serotonergic">>) >>
              ELSE <<>>
        days_since == daysSince(recent_maoi_use.stopped_date, day)
        required_washout == requiredWashout(toLowerCase(OrEmpty(recent_maoi_use.drug)))
        current_serotonergics == high_risk \o moderate_risk
        a2 == IF /\ recent_maoi_use.stopped_date # NullNum
                 /\ days_since < required_washout
                 /\ Len(current_serotonergics) > 0
              THEN << Alert("SEROTONIN_WASHOUT_VIOLATION", NullStr,
                            <<recent_maoi_use.drug>> \o names(current_serotonergics),
                            "CRITICAL",
                            <<"MAOI washout not complete", ToString(days_since),
                              ToString(required_washout)>>) >>
              ELSE <<>>
        a3 == IF ~has_maoi /\ Len(high_risk) >= 2
              THEN << Alert("SEROTONIN_HIGH_RISK", NullStr, names(high_risk), "HIGH",
                            <<"multiple high-potency serotonergic drugs">>) >>
              ELSE <<>>
        total_serotonergic == Len(high_risk) + Len(moderate_risk)
        a4 == IF ~has_maoi /\ Len(high_risk) = 1 /\ Len(moderate_risk) >= 1
              THEN << Alert("SEROTONIN_MODERATE_RISK", NullStr,
                            names(high_risk \o moderate_risk),
                            IF input.liver_disease \/ (Truthy(egfr) /\ egfr < 30)
                            THEN "HIGH" ELSE "MODERATE",
                            <<"serotonergic combination">>) >>
              ELSE <<>>
        has_triptan == Some(lower_risk, isTriptan)
        ssri_snri == SelectSeq(high_risk, LAMBDA m : m.class \in {"SSRI", "SNRI"})
        triptans == SelectSeq(lower_risk, isTriptan)
        a5 == IF has_triptan /\ Len(ssri_snri) > 0
              THEN << Alert("SEROTONIN_MODERATE_RISK", NullStr,
                            names(ssri_snri \o triptans), "MODERATE",
                            <<"triptan + SSRI/SNRI">>) >>
              ELSE <<>>
    IN  Returned(a1 \o a2 \o a3 \o a4 \o a5,
                 [ high_risk_count |-> Len(high_risk),
                   moderate_risk_count |-> Len(moderate_risk),
                   has_maoi |-> has_maoi,
                   total_serotonergic |-> total_serotonergic + Len(lower_risk) ])

\* ------------------------------------------------------------------------
\* FUNCTION 7: ICD-10 CONDITION MAPPER
\* ------------------------------------------------------------------------
\* CONDITION_GROUPERS in declaration order
CONDITION_GROUPERS == <<
  [conditionKey |-> "dementia", icdPrefixes |-> <<<<"F","0","1">>, <<"F","0","2">>, <<"F","0","3">>, <<"G","3","0">>, <<"G","3","1">>>>],
  [conditionKey |-> "falls_history_fracture_risk", icdPrefixes |-> <<<<"W","1","8">>, <<"W","1","9">>, <<"R","2","9","6">>, <<"Z","8","7","3","9">>, <<"M","8","0">>, <<"M","8","1">>>>],
  [conditionKey |-> "heart_failure", icdPrefixes |-> <<<<"I","5","0">>, <<"I","1","1","0">>, <<"I","1","3","0">>, <<"I","1","3","2">>>>],
  [conditionKey |-> "syncope", icdPrefixes |-> <<<<"R","5","5">>>>],
  [conditionKey |-> "parkinsons_disease", icdPrefixes |-> <<<<"G","2","0">>, <<"G","2","1">>>>],
  [conditionKey |-> "seizure_disorder", icdPrefixes |-> <<<<"G","4","0">>, <<"G","4","1">>, <<"R","5","6">>>>],
  [conditionKey |-> "gi_bleed_peptic_ulcer_history", icdPrefixes |-> <<<<"K","2","5">>, <<"K","2","6">>, <<"K","2","7">>, <<"K","9","2","0">>, <<"K","9","2","1">>, <<"K","9","2","2">>>>],
  [conditionKey |-> "ckd_stage_4_5", icdPrefixes |-> <<<<"N","1","8","4">>, <<"N","1","8","5">>, <<"N","1","8","6">>>>],
  [conditionKey |-> "urinary_retention_bph", icdPrefixes |-> <<<<"R","3","3">>, <<"N","4","0">>>>],
  [conditionKey |-> "chronic_constipation", icdPrefixes |-> <<<<"K","5","9","0">>>>],
  [conditionKey |-> "narrow_angle_glaucoma", icdPrefixes |-> <<<<"H","4","0","2">>>>],
  [conditionKey |-> "qt_prolongation", icdPrefixes |-> <<<<"I","4","5","8","1">>, <<"R","9","4","3","1">>>>],
  [conditionKey |-> "bradycardia", icdPrefixes |-> <<<<"R","0","0","1">>, <<"I","4","9","5">>>>],
  [conditionKey |-> "orthostatic_hypotension", icdPrefixes |-> <<<<"I","9","5","1">>>>],
  [conditionKey |-> "delirium", icdPrefixes |-> <<<<"F","0","5">>, <<"R","4","1","0">>>>],
  [conditionKey |-> "copd_respiratory_disease", icdPrefixes |-> <<<<"J","4","4">>, <<"J","4","3">>, <<"J","4","5">>>>],
  [conditionKey |-> "cirrhosis_liver_disease", icdPrefixes |-> <<<<"K","7","0">>, <<"K","7","4">>, <<"K","7","6">>>>],
  [conditionKey |-> "osteoporosis", icdPrefixes |-> <<<<"M","8","0">>, <<"M","8","1">>>>],
  [conditionKey |-> "atrial_fibrillation", icdPrefixes |-> <<<<"I","4","8">>>>],
  [conditionKey |-> "diabetes_hypoglycemia_risk", icdPrefixes |-> <<<<"E","1","1","6","4">>, <<"E","1","1","6","5">>>>] >>

\* the ICD mapper's CONDITION_AVOID_EFFECTS, keyed by conditionKey
ICD_CONDITION_EFFECTS == <<
  [condition |-> "dementia", effects |-> <<"anticholinergic", "sedating">>, exclude_drugs |-> <<>>],
  [condition |-> "falls_history_fracture_risk", effects |-> <<"sedating", "hypotensive", "fall_risk">>, exclude_drugs |-> <<>>],
  [condition |-> "heart_failure", effects |-> <<"fluid_retention", "nephrotoxic">>, exclude_drugs |-> <<>>],
  [condition |-> "syncope", effects |-> <<"hypotensive", "bradycardic", "QT_prolonging">>, exclude_drugs |-> <<>>],
  [condition |-> "parkinsons_disease", effects |-> <<"dopamine_blocking">>, exclude_drugs |-> <<<<"q","u","e","t","i","a","p","i","n","e">>, <<"c","l","o","z","a","p","i","n","e">>>>],
  [condition |-> "seizure_disorder", effects |-> <<"seizure_lowering">>, exclude_drugs |-> <<>>],
  [condition |-> "gi_bleed_peptic_ulcer_history", effects |-> <<"GI_bleeding", "antiplatelet">>, exclude_drugs |-> <<>>],
  [condition |-> "ckd_stage_4_5", effects |-> <<"nephrotoxic">>, exclude_drugs |-> <<>>],
  [condition |-> "urinary_retention_bph", effects |-> <<"anticholinergic">>, exclude_drugs |-> <<>>],
  [condition |-> "chronic_constipation", effects |-> <<"anticholinergic", "constipating">>, exclude_drugs |-> <<>>],
  [condition |-> "narrow_angle_glaucoma", effects |-> <<"anticholinergic">>, exclude_drugs |-> <<>>],
  [condition |-> "qt_prolongation", effects |-> <<"QT_prolonging">>, exclude_drugs |-> <<>>],
  [condition |-> "bradycardia", effects |-> <<"bradycardic">>, exclude_drugs |-> <<>>],
  [condition |-> "orthostatic_hypotension", effects |-> <<"hypotensive">>, exclude_drugs |-> <<>>],
  [condition |-> "delirium", effects |-> <<"anticholinergic", "sedating", "dopamine_blocking">>, exclude_drugs |-> <<>>],
  [condition |-> "copd_respiratory_disease", effects |-> <<"respiratory_depressant", "sedating">>, exclude_drugs |-> <<>>],
  [condition |-> "cirrhosis_liver_disease", effects |-> <<"hepatotoxic", "sedating">>, exclude_drugs |-> <<>>],
  [condition |-> "osteoporosis", effects |-> <<"fall_risk", "PPI_effects">>, exclude_drugs |-> <<>>],
  [condition |-> "atrial_fibrillation", effects |-> <<>>, exclude_drugs |-> <<>>],
  [condition |-> "diabetes_hypoglycemia_risk", effects |-> <<"hypoglycemia_prolonged">>, exclude_drugs |-> <<>>] >>

InSeq(x, s) == \E i \in 1..Len(s) : s[i] = x

MaxOf(S) == CHOOSE x \in S : \A y \in S : x >= y

\* String.prototype.trim
trim(s) ==
    LET kept == { i \in 1..Len(s) : s[i] # " " }
    IN  IF kept = {} THEN <<>> ELSE SubSeq(s, MinOf(kept), MaxOf(kept))

\* String(code || "").toUpperCase().replace(/\./g, "").trim()
normICD(code) == trim(SelectSeq(toUpperCase(OrEmpty(code)), LAMBDA c : c # "."))

\* an index that keeps one group per prefix: C15 must fail for it
PrefixConditionsFirstGroup(prefix) ==
    LET hit == SelectSeq(CONDITION_GROUPERS, LAMBDA group :
                   \E k \in 1..Len(group.icdPrefixes) : normICD(group.icdPrefixes[k]) = prefix)
    IN  IF hit = <<>> THEN <<>> ELSE << hit[1].conditionKey >>

\* ICD_PREFIX_TO_CONDITIONS[prefix] as buildPrefixIndex fills it: the keys of
\* the groups that list the prefix, in group order
PrefixConditions(prefix) ==
    LET hit == SelectSeq(CONDITION_GROUPERS, LAMBDA group :
                   \E k \in 1..Len(group.icdPrefixes) : normICD(group.icdPrefixes[k]) = prefix)
    IN  [i \in 1..Len(hit) |-> hit[i].conditionKey]

RECURSIVE AddAll(_, _)
\* Set.prototype.add of every element of xs, keeping insertion order
AddAll(acc, xs) ==
    IF xs = <<>> THEN acc
    ELSE AddAll(IF InSeq(Head(xs), acc) THEN acc ELSE Append(acc, Head(xs)), Tail(xs))

RECURSIVE PrefixScan(_, _, _)
\* the prefixes of code from length len down to 3
PrefixScan(code, len, acc) ==
    IF len < 3 THEN acc
    ELSE PrefixScan(code, len - 1, AddAll(acc, PrefixConditions(SubSeq(code, 1, len))))

RECURSIVE DeriveLoop(_, _, _)
DeriveLoop(icdCodes, i, acc) ==
    IF i > Len(icdCodes) THEN acc
    ELSE LET code == normICD(icdCodes[i])
         IN  DeriveLoop(icdCodes, i + 1,
                        IF Len(code) < 3 THEN acc ELSE PrefixScan(code, Len(code), acc))

deriveConditionsFromICD(icdCodes) == DeriveLoop(icdCodes, 1, <<>>)

RECURSIVE Concat(_)
Concat(ss) == IF ss = <<>> THEN <<>> ELSE Head(ss) \o Concat(Tail(ss))

getContraindicatedEffects(icdCodes) ==
    LET conditionKeys == deriveConditionsFromICD(icdCodes)
        byCondition == SelectSeq(ICD_CONDITION_EFFECTS, LAMBDA e : InSeq(e.condition, conditionKeys))
        entryOf(c) == SelectSeq(ICD_CONDITION_EFFECTS, LAMBDA e : e.condition = c)
        effectsOf(c) == IF entryOf(c) = <<>> THEN <<>> ELSE entryOf(c)[1].effects
    IN  [ conditionKeys |-> conditionKeys,
          avoidEffects |-> AddAll(<<>>, Concat([i \in 1..Len(conditionKeys) |-> effectsOf(conditionKeys[i])])),
          byCondition |-> byCondition ]

\* ------------------------------------------------------------------------
\* UNKNOWN DRUG TRACKER (utils/unknown_drugs.js)
\* ------------------------------------------------------------------------
skipList == << <<"v","i","t","a","m","i","n">>, <<"c","a","l","c","i","u","m">>, <<"m","a","g","n","e","s","i","u","m">>, <<"i","r","o","n">>, <<"z","i","n","c">>, <<"f","i","s","h"," ","o","i","l">>,
  <<"o","m","e","g","a">>, <<"p","r","o","b","i","o","t","i","c">>, <<"f","i","b","e","r">>, <<"d","3">>, <<"b","1","2">>, <<"b","6">>, <<"f","o","l","i","c">> >>

\* a tracker that trusts its session set alone and does not look for the
\* pair in the log file: C20 must fail for it
logUnknownDrugSessionOnly(unk, drugName, context, clock) ==
    IF drugName = NullStr \/ drugName = <<>> THEN unk
    ELSE LET normalizedName == trim(toLowerCase(drugName))
             key == normalizedName \o <<":">> \o context
             logged == [unk EXCEPT !.sessionLogged = @ \cup {key}]
         IN  IF key \in unk.sessionLogged THEN unk
             ELSE IF \E k \in 1..Len(skipList) : includes(normalizedName, skipList[k])
             THEN logged
             ELSE [logged EXCEPT !.logFile =
                       Append(@, [ drug |-> normalizedName, context |-> context,
                                   timestamp |-> clock ])]

\* a tracker without the session set, which looks for the pair in the log
\* file alone: C21 must fail for it
logUnknownDrugNoSession(unk, drugName, context, clock) ==
    IF drugName = NullStr \/ drugName = <<>> THEN unk
    ELSE LET normalizedName == trim(toLowerCase(drugName))
         IN  IF \E k \in 1..Len(skipList) : includes(normalizedName, skipList[k])
             THEN unk
             ELSE IF \E k \in 1..Len(unk.logFile) :
                        /\ unk.logFile[k].drug = normalizedName
                        /\ unk.logFile[k].context = context
             THEN unk
             ELSE [unk EXCEPT !.logFile =
                       Append(@, [ drug |-> normalizedName, context |-> context,
                                   timestamp |-> clock ])]

\* logUnknownDrug on the tracker state unk = [sessionLogged, logFile]: the
\* session set is updated before the skip list and the log file are looked at
logUnknownDrug(unk, drugName, context, clock) ==
    IF drugName = NullStr \/ drugName = <<>> THEN unk
    ELSE LET normalizedName == trim(toLowerCase(drugName))
             key == normalizedName \o <<":">> \o context
             logged == [unk EXCEPT !.sessionLogged = @ \cup {key}]
         IN  IF key \in unk.sessionLogged THEN unk
             ELSE IF \E k \in 1..Len(skipList) : includes(normalizedName, skipList[k])
             THEN logged
             ELSE IF \E k \in 1..Len(unk.logFile) :
                        /\ unk.logFile[k].drug = normalizedName
                        /\ unk.logFile[k].context = context
             THEN logged
             ELSE [logged EXCEPT !.logFile =
                       Append(@, [ drug |-> normalizedName, context |-> context,
                                   timestamp |-> clock ])]

\* ------------------------------------------------------------------------
\* FUNCTION 6: BEERS CRITERIA (effect-based)
\* ------------------------------------------------------------------------
\* DRUG_EFFECTS in declaration order (the order of Object.entries)
DRUG_EFFECTS == <<
  [drug |-> <<"d","i","p","h","e","n","h","y","d","r","a","m","i","n","e">>, effects |-> <<"anticholinergic", "sedating">>],
  [drug |-> <<"h","y","d","r","o","x","y","z","i","n","e">>, effects |-> <<"anticholinergic", "sedating">>],
  [drug |-> <<"c","h","l","o","r","p","h","e","n","i","r","a","m","i","n","e">>, effects |-> <<"anticholinergic", "sedating">>],
  [drug |-> <<"p","r","o","m","e","t","h","a","z","i","n","e">>, effects |-> <<"anticholinergic", "sedating", "dopamine_blocking">>],
  [drug |-> <<"m","e","c","l","i","z","i","n","e">>, effects |-> <<"anticholinergic", "sedating">>],
  [drug |-> <<"d","i","m","e","n","h","y","d","r","i","n","a","t","e">>, effects |-> <<"anticholinergic", "sedating">>],
  [drug |-> <<"b","r","o","m","p","h","e","n","i","r","a","m","i","n","e">>, effects |-> <<"anticholinergic", "sedating">>],
  [drug |-> <<"d","o","x","y","l","a","m","i","n","e">>, effects |-> <<"anticholinergic", "sedating">>],
  [drug |-> <<"c","y","p","r","o","h","e","p","t","a","d","i","n","e">>, effects |-> <<"anticholinergic", "sedating">>],
  [drug |-> <<"a","m","i","t","r","i","p","t","y","l","i","n","e">>, effects |-> <<"anticholinergic", "sedating", "QT_prolonging">>],
  [drug |-> <<"i","m","i","p","r","a","m","i","n","e">>, effects |-> <<"anticholinergic", "sedating", "QT_prolonging">>],
  [drug |-> <<"d","o","x","e","p","i","n">>, effects |-> <<"anticholinergic", "sedating">>],
  [drug |-> <<"n","o","r","t","r","i","p","t","y","l","i","n","e">>, effects |-> <<"anticholinergic", "sedating", "QT_prolonging">>],
  [drug |-> <<"d","e","s","i","p","r","a","m","i","n","e">>, effects |-> <<"anticholinergic", "QT_prolonging">>],
  [drug |-> <<"c","l","o","m","i","p","r","a","m","i","n","e">>, effects |-> <<"anticholinergic", "sedating", "serotonergic", "QT_prolonging">>],
  [drug |-> <<"t","r","i","m","i","p","r","a","m","i","n","e">>, effects |-> <<"anticholinergic", "sedating">>],
  [drug |-> <<"p","r","o","t","r","i","p","t","y","l","i","n","e">>, effects |-> <<"anticholinergic">>],
  [drug |-> <<"o","x","y","b","u","t","y","n","i","n">>, effects |-> <<"anticholinergic">>],
  [drug |-> <<"t","o","l","t","e","r","o","d","i","n","e">>, effects |-> <<"anticholinergic">>],
  [drug |-> <<"s","o","l","i","f","e","n","a","c","i","n">>, effects |-> <<"anticholinergic">>],
  [drug |-> <<"d","a","r","i","f","e","n","a","c","i","n">>, effects |-> <<"anticholinergic">>],
  [drug |-> <<"f","e","s","o","t","e","r","o","d","i","n","e">>, effects |-> <<"anticholinergic">>],
  [drug |-> <<"t","r","o","s","p","i","u","m">>, effects |-> <<"anticholinergic">>],
  [drug |-> <<"d","i","c","y","c","l","o","m","i","n","e">>, effects |-> <<"anticholinergic">>],
  [drug |-> <<"h","y","o","s","c","y","a","m","i","n","e">>, effects |-> <<"anticholinergic">>],
  [drug |-> <<"b","e","l","l","a","d","o","n","n","a">>, effects |-> <<"anticholinergic">>],
  [drug |-> <<"p","r","o","p","a","n","t","h","e","l","i","n","e">>, effects |-> <<"anticholinergic">>],
  [drug |-> <<"g","l","y","c","o","p","y","r","r","o","l","a","t","e">>, effects |-> <<"anticholinergic">>],
  [drug |-> <<"s","c","o","p","o","l","a","m","i","n","e">>, effects |-> <<"anticholinergic", "sedating">>],
  [drug |-> <<"d","i","a","z","e","p","a","m">>, effects |-> <<"sedating", "muscle_relaxant_effect", "fall_risk">>],
  [drug |-> <<"l","o","r","a","z","e","p","a","m">>, effects |-> <<"sedating", "fall_risk">>],
  [drug |-> <<"a","l","p","r","a","z","o","l","a","m">>, effects |-> <<"sedating", "fall_risk">>],
  [drug |-> <<"c","l","o","n","a","z","e","p","a","m">>, effects |-> <<"sedating", "fall_risk">>],
  [drug |-> <<"t","e","m","a","z","e","p","a","m">>, effects |-> <<"sedating", "fall_risk">>],
  [drug |-> <<"t","r","i","a","z","o","l","a","m">>, effects |-> <<"sedating", "fall_risk">>],
  [drug |-> <<"c","h","l","o","r","d","i","a","z","e","p","o","x","i","d","e">>, effects |-> <<"sedating", "fall_risk">>],
  [drug |-> <<"c","l","o","r","a","z","e","p","a","t","e">>, effects |-> <<"sedating", "fall_risk">>],
  [drug |-> <<"f","l","u","r","a","z","e","p","a","m">>, effects |-> <<"sedating", "fall_risk">>],
  [drug |-> <<"m","i","d","a","z","o","l","a","m">>, effects |-> <<"sedating", "fall_risk">>],
  [drug |-> <<"z","o","l","p","i","d","e","m">>, effects |-> <<"sedating", "fall_risk">>],
  [drug |-> <<"e","s","z","o","p","i","c","l","o","n","e">>, effects |-> <<"sedating", "fall_risk">>],
  [drug |-> <<"z","a","l","e","p","l","o","n">>, effects |-> <<"sedating", "fall_risk">>],
  [drug |-> <<"c","y","c","l","o","b","e","n","z","a","p","r","i","n","e">>, effects |-> <<"anticholinergic", "sedating">>],
  [drug |-> <<"m","e","t","h","o","c","a","r","b","a","m","o","l">>, effects |-> <<"sedating">>],
  [drug |-> <<"c","a","r","i","s","o","p","r","o","d","o","l">>, effects |-> <<"sedating">>],
  [drug |-> <<"m","e","t","a","x","a","l","o","n","e">>, effects |-> <<"sedating">>],
  [drug |-> <<"o","r","p","h","e","n","a","d","r","i","n","e">>, effects |-> <<"anticholinergic", "sedating">>],
  [drug |-> <<"t","i","z","a","n","i","d","i","n","e">>, effects |-> <<"sedating", "hypotensive">>],
  [drug |-> <<"b","a","c","l","o","f","e","n">>, effects |-> <<"sedating">>],
  [drug |-> <<"h","a","l","o","p","e","r","i","d","o","l">>, effects |-> <<"dopamine_blocking", "QT_prolonging", "fall_risk">>],
  [drug |-> <<"c","h","l","o","r","p","r","o","m","a","z","i","n","e">>, effects |-> <<"dopamine_blocking", "anticholinergic", "sedating", "QT_prolonging", "seizure_lowering">>],
  [drug |-> <<"t","h","i","o","r","i","d","a","z","i","n","e">>, effects |-> <<"dopamine_blocking", "anticholinergic", "QT_prolonging", "seizure_lowering">>],
  [drug |-> <<"q","u","e","t","i","a","p","i","n","e">>, effects |-> <<"sedating", "dopamine_blocking", "hypotensive">>],
  [drug |-> <<"o","l","a","n","z","a","p","i","n","e">>, effects |-> <<"sedating", "dopamine_blocking", "anticholinergic">>],
  [drug |-> <<"r","i","s","p","e","r","i","d","o","n","e">>, effects |-> <<"dopamine_blocking", "hypotensive">>],
  [drug |-> <<"a","r","i","p","i","p","r","a","z","o","l","e">>, effects |-> <<"dopamine_blocking">>],
  [drug |-> <<"z","i","p","r","a","s","i","d","o","n","e">>, effects |-> <<"dopamine_blocking", "QT_prolonging">>],
  [drug |-> <<"c","l","o","z","a","p","i","n","e">>, effects |-> <<"sedating", "anticholinergic", "seizure_lowering">>],
  [drug |-> <<"p","r","o","c","h","l","o","r","p","e","r","a","z","i","n","e">>, effects |-> <<"dopamine_blocking">>],
  [drug |-> <<"m","e","t","o","c","l","o","p","r","a","m","i","d","e">>, effects |-> <<"dopamine_blocking">>],
  [drug |-> <<"m","o","r","p","h","i","n","e">>, effects |-> <<"opioid", "sedating", "respiratory_depressant">>],
  [drug |-> <<"h","y","d","r","o","c","o","d","o","n","e">>, effects |-> <<"opioid", "sedating">>],
  [drug |-> <<"o","x","y","c","o","d","o","n","e">>, effects |-> <<"opioid", "sedating">>],
  [drug |-> <<"h","y","d","r","o","m","o","r","p","h","o","n","e">>, effects |-> <<"opioid", "sedating", "respiratory_depressant">>],
  [drug |-> <<"f","e","n","t","a","n","y","l">>, effects |-> <<"opioid", "sedating", "respiratory_depressant">>],
  [drug |-> <<"c","o","d","e","i","n","e">>, effects |-> <<"opioid", "sedating">>],
  [drug |-> <<"t","r","a","m","a","d","o","l">>, effects |-> <<"opioid", "serotonergic", "seizure_lowering">>],
  [drug |-> <<"m","e","p","e","r","i","d","i","n","e">>, effects |-> <<"opioid", "sedating", "seizure_lowering", "neurotoxic">>],
  [drug |-> <<"m","e","t","h","a","d","o","n","e">>, effects |-> <<"opioid", "sedating", "QT_prolonging">>],
  [drug |-> <<"b","u","p","r","e","n","o","r","p","h","i","n","e">>, effects |-> <<"opioid", "sedating">>],
  [drug |-> <<"t","a","p","e","n","t","a","d","o","l">>, effects |-> <<"opioid", "serotonergic">>],
  [drug |-> <<"i","b","u","p","r","o","f","e","n">>, effects |-> <<"nephrotoxic", "GI_bleeding", "fluid_retention">>],
  [drug |-> <<"n","a","p","r","o","x","e","n">>, effects |-> <<"nephrotoxic", "GI_bleeding", "fluid_retention">>],
  [drug |-> <<"d","i","c","l","o","f","e","n","a","c">>, effects |-> <<"nephrotoxic", "GI_bleeding", "fluid_retention">>],
  [drug |-> <<"m","e","l","o","x","i","c","a","m">>, effects |-> <<"nephrotoxic", "GI_bleeding", "fluid_retention">>],
  [drug |-> <<"i","n","d","o","m","e","t","h","a","c","i","n">>, effects |-> <<"nephrotoxic", "GI_bleeding", "fluid_retention", "CNS_effects">>],
  [drug |-> <<"k","e","t","o","r","o","l","a","c">>, effects |-> <<"nephrotoxic", "GI_bleeding", "fluid_retention">>],
  [drug |-> <<"p","i","r","o","x","i","c","a","m">>, effects |-> <<"nephrotoxic", "GI_bleeding", "fluid_retention">>],
  [drug |-> <<"c","e","l","e","c","o","x","i","b">>, effects |-> <<"nephrotoxic", "fluid_retention">>],
  [drug |-> <<"a","s","p","i","r","i","n">>, effects |-> <<"GI_bleeding", "antiplatelet">>],
  [drug |-> <<"d","i","g","o","x","i","n">>, effects |-> <<"arrhythmogenic", "narrow_therapeutic_index">>],
  [drug |-> <<"a","m","i","o","d","a","r","o","n","e">>, effects |-> <<"QT_prolonging", "thyroid_effects", "pulmonary_toxicity">>],
  [drug |-> <<"s","o","t","a","l","o","l">>, effects |-> <<"QT_prolonging">>],
  [drug |-> <<"d","o","f","e","t","i","l","i","d","e">>, effects |-> <<"QT_prolonging">>],
  [drug |-> <<"d","r","o","n","e","d","a","r","o","n","e">>, effects |-> <<"fluid_retention">>],
  [drug |-> <<"n","i","f","e","d","i","p","i","n","e">>, effects |-> <<"hypotensive", "reflex_tachycardia">>],
  [drug |-> <<"d","i","l","t","i","a","z","e","m">>, effects |-> <<"bradycardic", "hypotensive">>],
  [drug |-> <<"v","e","r","a","p","a","m","i","l">>, effects |-> <<"bradycardic", "hypotensive", "constipating">>],
  [drug |-> <<"d","o","x","a","z","o","s","i","n">>, effects |-> <<"hypotensive", "fall_risk">>],
  [drug |-> <<"p","r","a","z","o","s","i","n">>, effects |-> <<"hypotensive", "fall_risk">>],
  [drug |-> <<"t","e","r","a","z","o","s","i","n">>, effects |-> <<"hypotensive", "fall_risk">>],
  [drug |-> <<"c","l","o","n","i","d","i","n","e">>, effects |-> <<"sedating", "hypotensive", "bradycardic", "rebound_hypertension">>],
  [drug |-> <<"m","e","t","h","y","l","d","o","p","a">>, effects |-> <<"sedating", "hypotensive">>],
  [drug |-> <<"g","l","y","b","u","r","i","d","e">>, effects |-> <<"hypoglycemia_prolonged">>],
  [drug |-> <<"g","l","i","p","i","z","i","d","e">>, effects |-> <<"hypoglycemia">>],
  [drug |-> <<"g","l","i","m","e","p","i","r","i","d","e">>, effects |-> <<"hypoglycemia">>],
  [drug |-> <<"c","h","l","o","r","p","r","o","p","a","m","i","d","e">>, effects |-> <<"hypoglycemia_prolonged", "SIADH">>],
  [drug |-> <<"i","n","s","u","l","i","n">>, effects |-> <<"hypoglycemia">>],
  [drug |-> <<"p","h","e","n","y","t","o","i","n">>, effects |-> <<"sedating", "fall_risk", "narrow_therapeutic_index">>],
  [drug |-> <<"p","h","e","n","o","b","a","r","b","i","t","a","l">>, effects |-> <<"sedating", "fall_risk">>],
  [drug |-> <<"c","a","r","b","a","m","a","z","e","p","i","n","e">>, effects |-> <<"sedating", "SIADH", "narrow_therapeutic_index">>],
  [drug |-> <<"v","a","l","p","r","o","a","t","e">>, effects |-> <<"sedating">>],
  [drug |-> <<"g","a","b","a","p","e","n","t","i","n">>, effects |-> <<"sedating", "fall_risk">>],
  [drug |-> <<"p","r","e","g","a","b","a","l","i","n">>, effects |-> <<"sedating", "fall_risk">>],
  [drug |-> <<"t","o","p","i","r","a","m","a","t","e">>, effects |-> <<"sedating", "cognitive_effects">>],
  [drug |-> <<"l","e","v","e","t","i","r","a","c","e","t","a","m">>, effects |-> <<"sedating">>],
  [drug |-> <<"f","l","u","o","x","e","t","i","n","e">>, effects |-> <<"serotonergic", "fall_risk">>],
  [drug |-> <<"s","e","r","t","r","a","l","i","n","e">>, effects |-> <<"serotonergic", "fall_risk">>],
  [drug |-> <<"p","a","r","o","x","e","t","i","n","e">>, effects |-> <<"serotonergic", "anticholinergic", "fall_risk">>],
  [drug |-> <<"c","i","t","a","l","o","p","r","a","m">>, effects |-> <<"serotonergic", "QT_prolonging", "fall_risk">>],
  [drug |-> <<"e","s","c","i","t","a","l","o","p","r","a","m">>, effects |-> <<"serotonergic", "QT_prolonging", "fall_risk">>],
  [drug |-> <<"v","e","n","l","a","f","a","x","i","n","e">>, effects |-> <<"serotonergic", "hypertensive">>],
  [drug |-> <<"d","u","l","o","x","e","t","i","n","e">>, effects |-> <<"serotonergic">>],
  [drug |-> <<"m","i","r","t","a","z","a","p","i","n","e">>, effects |-> <<"sedating", "fall_risk">>],
  [drug |-> <<"t","r","a","z","o","d","o","n","e">>, effects |-> <<"sedating", "hypotensive", "fall_risk">>],
  [drug |-> <<"b","u","p","r","o","p","i","o","n">>, effects |-> <<"seizure_lowering">>],
  [drug |-> <<"o","m","e","p","r","a","z","o","l","e">>, effects |-> <<"PPI_effects">>],
  [drug |-> <<"p","a","n","t","o","p","r","a","z","o","l","e">>, effects |-> <<"PPI_effects">>],
  [drug |-> <<"e","s","o","m","e","p","r","a","z","o","l","e">>, effects |-> <<"PPI_effects">>],
  [drug |-> <<"l","a","n","s","o","p","r","a","z","o","l","e">>, effects |-> <<"PPI_effects">>],
  [drug |-> <<"r","a","b","e","p","r","a","z","o","l","e">>, effects |-> <<"PPI_effects">>],
  [drug |-> <<"d","e","x","l","a","n","s","o","p","r","a","z","o","l","e">>, effects |-> <<"PPI_effects">>],
  [drug |-> <<"c","i","m","e","t","i","d","i","n","e">>, effects |-> <<"anticholinergic", "drug_interactions">>],
  [drug |-> <<"r","a","n","i","t","i","d","i","n","e">>, effects |-> <<"CNS_effects">>],
  [drug |-> <<"f","a","m","o","t","i","d","i","n","e">>, effects |-> <<>>],
  [drug |-> <<"n","i","t","r","o","f","u","r","a","n","t","o","i","n">>, effects |-> <<"nephrotoxic", "pulmonary_toxicity">>],
  [drug |-> <<"f","l","u","o","r","o","q","u","i","n","o","l","o","n","e","s">>, effects |-> <<"QT_prolonging", "tendon_rupture", "CNS_effects">>],
  [drug |-> <<"c","i","p","r","o","f","l","o","x","a","c","i","n">>, effects |-> <<"QT_prolonging", "tendon_rupture", "CNS_effects">>],
  [drug |-> <<"l","e","v","o","f","l","o","x","a","c","i","n">>, effects |-> <<"QT_prolonging", "tendon_rupture", "CNS_effects">>],
  [drug |-> <<"m","o","x","i","f","l","o","x","a","c","i","n">>, effects |-> <<"QT_prolonging", "tendon_rupture">>],
  [drug |-> <<"t","h","e","o","p","h","y","l","l","i","n","e">>, effects |-> <<"arrhythmogenic", "seizure_lowering", "narrow_therapeutic_index">>],
  [drug |-> <<"l","i","t","h","i","u","m">>, effects |-> <<"narrow_therapeutic_index", "nephrotoxic">>],
  [drug |-> <<"w","a","r","f","a","r","i","n">>, effects |-> <<"bleeding_risk", "narrow_therapeutic_index">>],
  [drug |-> <<"c","i","l","o","s","t","a","z","o","l">>, effects |-> <<"fluid_retention">>] >>

\* the Beers module's own CONDITION_AVOID_EFFECTS (legacy condition strings)
CONDITION_AVOID_EFFECTS == <<
  [condition |-> "dementia", effects |-> <<"anticholinergic", "sedating">>, exclude_drugs |-> <<>>],
  [condition |-> "cognitive_impairment", effects |-> <<"anticholinergic", "sedating">>, exclude_drugs |-> <<>>],
  [condition |-> "delirium", effects |-> <<"anticholinergic", "sedating", "dopamine_blocking">>, exclude_drugs |-> <<>>],
  [condition |-> "falls_history", effects |-> <<"sedating", "hypotensive", "fall_risk">>, exclude_drugs |-> <<>>],
  [condition |-> "fracture_history", effects |-> <<"sedating", "hypotensive", "fall_risk">>, exclude_drugs |-> <<>>],
  [condition |-> "heart_failure", effects |-> <<"fluid_retention", "nephrotoxic">>, exclude_drugs |-> <<>>],
  [condition |-> "syncope", effects |-> <<"hypotensive", "bradycardic", "QT_prolonging">>, exclude_drugs |-> <<>>],
  [condition |-> "parkinson", effects |-> <<"dopamine_blocking">>, exclude_drugs |-> <<<<"q","u","e","t","i","a","p","i","n","e">>, <<"c","l","o","z","a","p","i","n","e">>>>],
  [condition |-> "seizure_disorder", effects |-> <<"seizure_lowering">>, exclude_drugs |-> <<>>],
  [condition |-> "gi_bleed_history", effects |-> <<"GI_bleeding", "antiplatelet">>, exclude_drugs |-> <<>>],
  [condition |-> "peptic_ulcer", effects |-> <<"GI_bleeding">>, exclude_drugs |-> <<>>],
  [condition |-> "ckd_stage_4", effects |-> <<"nephrotoxic">>, exclude_drugs |-> <<>>],
  [condition |-> "ckd_stage_5", effects |-> <<"nephrotoxic">>, exclude_drugs |-> <<>>],
  [condition |-> "urinary_retention", effects |-> <<"anticholinergic">>, exclude_drugs |-> <<>>],
  [condition |-> "bph", effects |-> <<"anticholinergic">>, exclude_drugs |-> <<>>],
  [condition |-> "chronic_constipation", effects |-> <<"anticholinergic", "constipating">>, exclude_drugs |-> <<>>],
  [condition |-> "narrow_angle_glaucoma", effects |-> <<"anticholinergic">>, exclude_drugs |-> <<>>],
  [condition |-> "QT_prolongation", effects |-> <<"QT_prolonging">>, exclude_drugs |-> <<>>],
  [condition |-> "bradycardia", effects |-> <<"bradycardic">>, exclude_drugs |-> <<>>],
  [condition |-> "orthostatic_hypotension", effects |-> <<"hypotensive">>, exclude_drugs |-> <<>>],
  [condition |-> "insomnia", effects |-> <<>>, exclude_drugs |-> <<>>] >>

\* ACB_SCORES in declaration order; "clozapine" is declared twice and keeps
\* its first position with its last value
ACB_SCORES == <<
  [drug |-> <<"a","m","i","t","r","i","p","t","y","l","i","n","e">>, score |-> 3],
  [drug |-> <<"a","t","r","o","p","i","n","e">>, score |-> 3],
  [drug |-> <<"b","e","n","z","t","r","o","p","i","n","e">>, score |-> 3],
  [drug |-> <<"c","h","l","o","r","p","h","e","n","i","r","a","m","i","n","e">>, score |-> 3],
  [drug |-> <<"c","h","l","o","r","p","r","o","m","a","z","i","n","e">>, score |-> 3],
  [drug |-> <<"c","l","o","m","i","p","r","a","m","i","n","e">>, score |-> 3],
  [drug |-> <<"c","l","o","z","a","p","i","n","e">>, score |-> 2],
  [drug |-> <<"c","y","p","r","o","h","e","p","t","a","d","i","n","e">>, score |-> 3],
  [drug |-> <<"d","e","s","i","p","r","a","m","i","n","e">>, score |-> 3],
  [drug |-> <<"d","i","c","y","c","l","o","m","i","n","e">>, score |-> 3],
  [drug |-> <<"d","i","p","h","e","n","h","y","d","r","a","m","i","n","e">>, score |-> 3],
  [drug |-> <<"d","o","x","e","p","i","n">>, score |-> 3],
  [drug |-> <<"d","o","x","y","l","a","m","i","n","e">>, score |-> 3],
  [drug |-> <<"f","e","s","o","t","e","r","o","d","i","n","e">>, score |-> 3],
  [drug |-> <<"h","y","d","r","o","x","y","z","i","n","e">>, score |-> 3],
  [drug |-> <<"h","y","o","s","c","y","a","m","i","n","e">>, score |-> 3],
  [drug |-> <<"i","m","i","p","r","a","m","i","n","e">>, score |-> 3],
  [drug |-> <<"m","e","c","l","i","z","i","n","e">>, score |-> 3],
  [drug |-> <<"n","o","r","t","r","i","p","t","y","l","i","n","e">>, score |-> 3],
  [drug |-> <<"o","l","a","n","z","a","p","i","n","e">>, score |-> 3],
  [drug |-> <<"o","r","p","h","e","n","a","d","r","i","n","e">>, score |-> 3],
  [drug |-> <<"o","x","y","b","u","t","y","n","i","n">>, score |-> 3],
  [drug |-> <<"p","a","r","o","x","e","t","i","n","e">>, score |-> 3],
  [drug |-> <<"p","e","r","p","h","e","n","a","z","i","n","e">>, score |-> 3],
  [drug |-> <<"p","r","o","m","e","t","h","a","z","i","n","e">>, score |-> 3],
  [drug |-> <<"s","c","o","p","o","l","a","m","i","n","e">>, score |-> 3],
  [drug |-> <<"t","h","i","o","r","i","d","a","z","i","n","e">>, score |-> 3],
  [drug |-> <<"t","o","l","t","e","r","o","d","i","n","e">>, score |-> 3],
  [drug |-> <<"t","r","i","f","l","u","o","p","e","r","a","z","i","n","e">>, score |-> 3],
  [drug |-> <<"t","r","i","h","e","x","y","p","h","e","n","i","d","y","l">>, score |-> 3],
  [drug |-> <<"t","r","i","m","i","p","r","a","m","i","n","e">>, score |-> 3],
  [drug |-> <<"a","m","a","n","t","a","d","i","n","e">>, score |-> 2],
  [drug |-> <<"b","a","c","l","o","f","e","n">>, score |-> 2],
  [drug |-> <<"c","a","r","b","a","m","a","z","e","p","i","n","e">>, score |-> 2],
  [drug |-> <<"c","e","t","i","r","i","z","i","n","e">>, score |-> 2],
  [drug |-> <<"c","i","m","e","t","i","d","i","n","e">>, score |-> 2],
  [drug |-> <<"c","y","c","l","o","b","e","n","z","a","p","r","i","n","e">>, score |-> 2],
  [drug |-> <<"d","a","r","i","f","e","n","a","c","i","n">>, score |-> 2],
  [drug |-> <<"l","o","p","e","r","a","m","i","d","e">>, score |-> 2],
  [drug |-> <<"l","o","r","a","t","a","d","i","n","e">>, score |-> 2],
  [drug |-> <<"m","e","p","e","r","i","d","i","n","e">>, score |-> 2],
  [drug |-> <<"n","i","f","e","d","i","p","i","n","e">>, score |-> 2],
  [drug |-> <<"o","x","c","a","r","b","a","z","e","p","i","n","e">>, score |-> 2],
  [drug |-> <<"p","i","m","o","z","i","d","e">>, score |-> 2],
  [drug |-> <<"s","o","l","i","f","e","n","a","c","i","n">>, score |-> 2],
  [drug |-> <<"t","r","o","s","p","i","u","m">>, score |-> 2],
  [drug |-> <<"a","l","p","r","a","z","o","l","a","m">>, score |-> 1],
  [drug |-> <<"a","r","i","p","i","p","r","a","z","o","l","e">>, score |-> 1],
  [drug |-> <<"a","t","e","n","o","l","o","l">>, score |-> 1],
  [drug |-> <<"b","u","p","r","o","p","i","o","n">>, score |-> 1],
  [drug |-> <<"c","a","p","t","o","p","r","i","l">>, score |-> 1],
  [drug |-> <<"c","i","t","a","l","o","p","r","a","m">>, score |-> 1],
  [drug |-> <<"c","o","d","e","i","n","e">>, score |-> 1],
  [drug |-> <<"d","i","a","z","e","p","a","m">>, score |-> 1],
  [drug |-> <<"d","i","g","o","x","i","n">>, score |-> 1],
  [drug |-> <<"d","u","l","o","x","e","t","i","n","e">>, score |-> 1],
  [drug |-> <<"e","s","c","i","t","a","l","o","p","r","a","m">>, score |-> 1],
  [drug |-> <<"f","e","n","t","a","n","y","l">>, score |-> 1],
  [drug |-> <<"f","l","u","o","x","e","t","i","n","e">>, score |-> 1],
  [drug |-> <<"f","l","u","v","o","x","a","m","i","n","e">>, score |-> 1],
  [drug |-> <<"f","u","r","o","s","e","m","i","d","e">>, score |-> 1],
  [drug |-> <<"h","a","l","o","p","e","r","i","d","o","l">>, score |-> 1],
  [drug |-> <<"h","y","d","r","a","l","a","z","i","n","e">>, score |-> 1],
  [drug |-> <<"h","y","d","r","o","c","o","r","t","i","s","o","n","e">>, score |-> 1],
  [drug |-> <<"i","s","o","s","o","r","b","i","d","e">>, score |-> 1],
  [drug |-> <<"l","e","v","o","c","e","t","i","r","i","z","i","n","e">>, score |-> 1],
  [drug |-> <<"l","i","t","h","i","u","m">>, score |-> 1],
  [drug |-> <<"m","e","t","f","o","r","m","i","n">>, score |-> 1],
  [drug |-> <<"m","e","t","o","p","r","o","l","o","l">>, score |-> 1],
  [drug |-> <<"m","o","r","p","h","i","n","e">>, score |-> 1],
  [drug |-> <<"o","x","y","c","o","d","o","n","e">>, score |-> 1],
  [drug |-> <<"p","r","e","d","n","i","s","o","n","e">>, score |-> 1],
  [drug |-> <<"q","u","e","t","i","a","p","i","n","e">>, score |-> 1],
  [drug |-> <<"r","a","n","i","t","i","d","i","n","e">>, score |-> 1],
  [drug |-> <<"r","i","s","p","e","r","i","d","o","n","e">>, score |-> 1],
  [drug |-> <<"s","e","r","t","r","a","l","i","n","e">>, score |-> 1],
  [drug |-> <<"t","h","e","o","p","h","y","l","l","i","n","e">>, score |-> 1],
  [drug |-> <<"t","r","a","z","o","d","o","n","e">>, score |-> 1],
  [drug |-> <<"v","e","n","l","a","f","a","x","i","n","e">>, score |-> 1],
  [drug |-> <<"w","a","r","f","a","r","i","n">>, score |-> 1] >>

\* PIM_DATABASE in declaration order
PIM_DATABASE == <<
  [drug |-> <<"d","i","p","h","e","n","h","y","d","r","a","m","i","n","e">>, severity |-> "AVOID"],
  [drug |-> <<"h","y","d","r","o","x","y","z","i","n","e">>, severity |-> "AVOID"],
  [drug |-> <<"c","h","l","o","r","p","h","e","n","i","r","a","m","i","n","e">>, severity |-> "AVOID"],
  [drug |-> <<"p","r","o","m","e","t","h","a","z","i","n","e">>, severity |-> "AVOID"],
  [drug |-> <<"m","e","c","l","i","z","i","n","e">>, severity |-> "AVOID"],
  [drug |-> <<"d","i","a","z","e","p","a","m">>, severity |-> "AVOID"],
  [drug |-> <<"l","o","r","a","z","e","p","a","m">>, severity |-> "AVOID"],
  [drug |-> <<"a","l","p","r","a","z","o","l","a","m">>, severity |-> "AVOID"],
  [drug |-> <<"c","l","o","n","a","z","e","p","a","m">>, severity |-> "AVOID"],
  [drug |-> <<"t","e","m","a","z","e","p","a","m">>, severity |-> "AVOID"],
  [drug |-> <<"t","r","i","a","z","o","l","a","m">>, severity |-> "AVOID"],
  [drug |-> <<"f","l","u","r","a","z","e","p","a","m">>, severity |-> "AVOID"],
  [drug |-> <<"c","h","l","o","r","d","i","a","z","e","p","o","x","i","d","e">>, severity |-> "AVOID"],
  [drug |-> <<"z","o","l","p","i","d","e","m">>, severity |-> "AVOID"],
  [drug |-> <<"e","s","z","o","p","i","c","l","o","n","e">>, severity |-> "AVOID"],
  [drug |-> <<"z","a","l","e","p","l","o","n">>, severity |-> "AVOID"],
  [drug |-> <<"c","y","c","l","o","b","e","n","z","a","p","r","i","n","e">>, severity |-> "AVOID"],
  [drug |-> <<"m","e","t","h","o","c","a","r","b","a","m","o","l">>, severity |-> "AVOID"],
  [drug |-> <<"c","a","r","i","s","o","p","r","o","d","o","l">>, severity |-> "AVOID"],
  [drug |-> <<"m","e","t","a","x","a","l","o","n","e">>, severity |-> "AVOID"],
  [drug |-> <<"o","r","p","h","e","n","a","d","r","i","n","e">>, severity |-> "AVOID"],
  [drug |-> <<"d","i","c","y","c","l","o","m","i","n","e">>, severity |-> "AVOID"],
  [drug |-> <<"h","y","o","s","c","y","a","m","i","n","e">>, severity |-> "AVOID"],
  [drug |-> <<"o","x","y","b","u","t","y","n","i","n">>, severity |-> "AVOID"],
  [drug |-> <<"t","o","l","t","e","r","o","d","i","n","e">>, severity |-> "CAUTION"],
  [drug |-> <<"s","o","l","i","f","e","n","a","c","i","n">>, severity |-> "CAUTION"],
  [drug |-> <<"a","m","i","t","r","i","p","t","y","l","i","n","e">>, severity |-> "AVOID"],
  [drug |-> <<"i","m","i","p","r","a","m","i","n","e">>, severity |-> "AVOID"],
  [drug |-> <<"d","o","x","e","p","i","n">>, severity |-> "AVOID"],
  [drug |-> <<"g","l","y","b","u","r","i","d","e">>, severity |-> "AVOID"],
  [drug |-> <<"c","h","l","o","r","p","r","o","p","a","m","i","d","e">>, severity |-> "AVOID"],
  [drug |-> <<"m","e","t","o","c","l","o","p","r","a","m","i","d","e">>, severity |-> "AVOID"],
  [drug |-> <<"m","e","p","e","r","i","d","i","n","e">>, severity |-> "AVOID"],
  [drug |-> <<"i","n","d","o","m","e","t","h","a","c","i","n">>, severity |-> "AVOID"],
  [drug |-> <<"k","e","t","o","r","o","l","a","c">>, severity |-> "AVOID"],
  [drug |-> <<"n","i","f","e","d","i","p","i","n","e">>, severity |-> "AVOID"],
  [drug |-> <<"d","o","x","a","z","o","s","i","n">>, severity |-> "AVOID_HTN"],
  [drug |-> <<"p","r","a","z","o","s","i","n">>, severity |-> "AVOID_HTN"],
  [drug |-> <<"t","e","r","a","z","o","s","i","n">>, severity |-> "AVOID_HTN"],
  [drug |-> <<"c","l","o","n","i","d","i","n","e">>, severity |-> "AVOID"],
  [drug |-> <<"m","e","t","h","y","l","d","o","p","a">>, severity |-> "AVOID"] >>

CNS_ACTIVE_EFFECTS == {"opioid", "sedating", "fall_risk"}

\* a scan that matches only a key that the name holds, not a key that holds
\* the name: C29 must fail for it
PartialMatchKeyInName(table, name_lower) ==
    LET hits == { k \in 1..Len(table) : includes(name_lower, table[k].drug) }
    IN  IF hits = {} THEN 0 ELSE MinOf(hits)

\* the first row of a name-keyed table that the lookups' partial match
\* accepts: the name includes the key or the key includes the name; 0 if none
PartialMatch(table, name_lower) ==
    LET hits == { k \in 1..Len(table) :
                    \/ includes(name_lower, table[k].drug)
                    \/ includes(table[k].drug, name_lower) }
    IN  IF hits = {} THEN 0 ELSE MinOf(hits)

\* the row holding exactly this key; 0 if none
ExactMatch(table, name_lower) ==
    LET hits == { k \in 1..Len(table) : table[k].drug = name_lower }
    IN  IF hits = {} THEN 0 ELSE MinOf(hits)

\* a lookup that scans for a partial match without trying the exact key
\* first: C13 must fail for it
drugEffectsRowScanOnly(drugName) ==
    PartialMatch(DRUG_EFFECTS, trim(toLowerCase(OrEmpty(drugName))))

\* the DRUG_EFFECTS row getDrugEffects answers from: exact, else partial; 0 if none
drugEffectsRow(drugName) ==
    LET name_lower == trim(toLowerCase(OrEmpty(drugName)))
    IN  IF ExactMatch(DRUG_EFFECTS, name_lower) # 0
        THEN ExactMatch(DRUG_EFFECTS, name_lower)
        ELSE PartialMatch(DRUG_EFFECTS, name_lower)

\* DRUG_EFFECTS[name_lower] is truthy for a member the table inherits
inheritedName(drugName) ==
    LET name_lower == trim(toLowerCase(OrEmpty(drugName)))
    IN  ExactMatch(DRUG_EFFECTS, name_lower) = 0 /\ name_lower \in InheritedKeys

getDrugEffects(drugName) ==
    IF inheritedName(drugName) THEN NotText
    ELSE IF drugEffectsRow(drugName) = 0 THEN <<>>
    ELSE DRUG_EFFECTS[drugEffectsRow(drugName)].effects

\* getDrugEffects reports the name to the unknown-drug tracker
reportsUnknown(drugName) ==
    /\ ~inheritedName(drugName)
    /\ drugEffectsRow(drugName) = 0
    /\ Len(trim(toLowerCase(OrEmpty(drugName)))) > 2

getACBScore(drugName) ==
    LET name_lower == trim(toLowerCase(OrEmpty(drugName)))
    IN  IF ExactMatch(ACB_SCORES, name_lower) # 0
        THEN ACB_SCORES[ExactMatch(ACB_SCORES, name_lower)].score
        ELSE IF name_lower \in InheritedKeys THEN NotText
        ELSE IF PartialMatch(ACB_SCORES, name_lower) # 0
        THEN ACB_SCORES[PartialMatch(ACB_SCORES, name_lower)].score
        ELSE 0

\* the PIM_DATABASE row of the name (partial match only); 0 for null
getPIMInfo(drugName) == PartialMatch(PIM_DATABASE, trim(toLowerCase(OrEmpty(drugName))))

\* TOXIDROMES in declaration order, the symptoms as they are written
TOXIDROMES == <<
  [toxidrome |-> "anticholinergic", symptoms |-> << <<"t","a","c","h","y","c","a","r","d","i","a">>, <<"d","r","y","_","s","k","i","n">>, <<"m","y","d","r","i","a","s","i","s">>,
      <<"u","r","i","n","a","r","y","_","r","e","t","e","n","t","i","o","n">>, <<"a","l","t","e","r","e","d","_","m","e","n","t","a","l","_","s","t","a","t","u","s">>, <<"h","y","p","e","r","t","h","e","r","m","i","a">>, <<"d","e","c","r","e","a","s","e","d","_","b","o","w","e","l","_","s","o","u","n","d","s">> >>],
  [toxidrome |-> "cholinergic", symptoms |-> << <<"b","r","a","d","y","c","a","r","d","i","a">>, <<"s","a","l","i","v","a","t","i","o","n">>, <<"l","a","c","r","i","m","a","t","i","o","n">>,
      <<"u","r","i","n","a","t","i","o","n">>, <<"d","e","f","e","c","a","t","i","o","n">>, <<"m","i","o","s","i","s">>, <<"b","r","o","n","c","h","o","s","p","a","s","m">> >>],
  [toxidrome |-> "serotonin", symptoms |-> << <<"h","y","p","e","r","t","h","e","r","m","i","a">>, <<"c","l","o","n","u","s">>, <<"h","y","p","e","r","r","e","f","l","e","x","i","a">>,
      <<"a","g","i","t","a","t","i","o","n">>, <<"d","i","a","p","h","o","r","e","s","i","s">>, <<"t","r","e","m","o","r">>, <<"m","y","d","r","i","a","s","i","s">> >>],
  [toxidrome |-> "opioid", symptoms |-> << <<"m","i","o","s","i","s">>, <<"r","e","s","p","i","r","a","t","o","r","y","_","d","e","p","r","e","s","s","i","o","n">>,
      <<"d","e","c","r","e","a","s","e","d","_","L","O","C">>, <<"h","y","p","o","t","e","n","s","i","o","n">>, <<"b","r","a","d","y","c","a","r","d","i","a">> >>],
  [toxidrome |-> "sympathomimetic", symptoms |-> << <<"t","a","c","h","y","c","a","r","d","i","a">>, <<"h","y","p","e","r","t","e","n","s","i","o","n">>,
      <<"h","y","p","e","r","t","h","e","r","m","i","a">>, <<"m","y","d","r","i","a","s","i","s">>, <<"d","i","a","p","h","o","r","e","s","i","s">>, <<"a","g","i","t","a","t","i","o","n">> >>],
  [toxidrome |-> "sedative_hypnotic", symptoms |-> << <<"d","e","c","r","e","a","s","e","d","_","L","O","C">>,
      <<"r","e","s","p","i","r","a","t","o","r","y","_","d","e","p","r","e","s","s","i","o","n">>, <<"h","y","p","o","t","e","n","s","i","o","n">>, <<"h","y","p","o","t","h","e","r","m","i","a">>, <<"a","t","a","x","i","a">> >>] >>

\* identifyToxidrome: the toxidromes with two or more of their symptoms in the
\* lower-cased input, by descending confidence (the sort is stable); the
\* confidence matching.length / symptoms.length is kept as the two lengths
identifyToxidrome(symptoms) ==
    LET symptom_set == { toLowerCase(symptoms[i]) : i \in 1..Len(symptoms) }
        all == [ t \in 1..Len(TOXIDROMES) |->
                   LET matching == SelectSeq(TOXIDROMES[t].symptoms,
                                             LAMBDA s : s \in symptom_set)
                   IN  [ toxidrome |-> TOXIDROMES[t].toxidrome,
                         confidence |-> [ num |-> Len(matching),
                                          den |-> Len(TOXIDROMES[t].symptoms) ],
                         matched_symptoms |-> matching ] ]
        matches == SelectSeq(all, LAMBDA m : Len(m.matched_symptoms) >= 2)
        above(a, b) == a.confidence.num * b.confidence.den > b.confidence.num * a.confidence.den
        place(i) == 1 + Cardinality({ j \in 1..Len(matches) :
                           \/ above(matches[j], matches[i])
                           \/ ~above(matches[i], matches[j]) /\ j < i })
    IN  [ p \in 1..Len(matches) |-> matches[CHOOSE i \in 1..Len(matches) : place(i) = p] ]

Filter(s, keep) == SelectSeq(s, LAMBDA e : InSeq(e, keep))

\* exclude_drugs?.some(ex => drugName.toLowerCase().includes(ex))
excludesDrug(entry, drugName) ==
    \E k \in 1..Len(entry.exclude_drugs) : includes(toLowerCase(drugName), entry.exclude_drugs[k])

\* the condition_interactions pushed for one medication: the ICD-derived
\* check first, then one per legacy condition, in the order of conditions
BeersInteractions(drugName, effects, icd_result, conditions) ==
    LET bad_icd == Filter(effects, icd_result.avoidEffects)
        triggering == SelectSeq(icd_result.byCondition, LAMBDA e :
                          \E k \in 1..Len(bad_icd) : InSeq(bad_icd[k], e.effects))
        \* derived_conditions.filter keeps derivation order
        triggering_conditions == SelectSeq(icd_result.conditionKeys, LAMBDA c :
                          \E k \in 1..Len(triggering) : triggering[k].condition = c)
        excluded == \E k \in 1..Len(triggering) : excludesDrug(triggering[k], drugName)
        icdPart == IF Len(icd_result.avoidEffects) > 0 /\ Len(bad_icd) > 0 /\ ~excluded
                   THEN << [ drug |-> drugName, conditions |-> triggering_conditions,
                             harmful_effects |-> bad_icd, source |-> "ICD" ] >>
                   ELSE <<>>
        legacy(condition) ==
            LET info == SelectSeq(CONDITION_AVOID_EFFECTS, LAMBDA e : e.condition = condition)
                bad == IF info = <<>> THEN <<>> ELSE Filter(effects, info[1].effects)
            IN  IF info = <<>> \/ bad = <<>> \/ excludesDrug(info[1], drugName) THEN <<>>
                ELSE << [ drug |-> drugName, conditions |-> <<condition>>,
                          harmful_effects |-> bad, source |-> "legacy" ] >>
    IN  icdPart \o Concat([i \in 1..Len(conditions) |-> legacy(conditions[i])])

\* a burden that takes the highest score instead of the sum: C17 must fail for it
SumACBHighest(medications, i) ==
    MaxOf({0} \cup { getACBScore(OrEmpty(medications[k].name)) : k \in i..Len(medications) })

RECURSIVE SumACB(_, _)
SumACB(medications, i) ==
    IF i > Len(medications) THEN 0
    ELSE getACBScore(OrEmpty(medications[i].name)) + SumACB(medications, i + 1)

isCnsActive(m) == \E k \in 1..Len(getDrugEffects(m.name)) : getDrugEffects(m.name)[k] \in CNS_ACTIVE_EFFECTS

\* a name the medication loop throws at: not a string, or one that
\* getDrugEffects answers with an inherited member instead of an array
unusableName(name) == name = NotAString \/ inheritedName(OrEmpty(name))

BEERS_CRITERIA_CHECK(input) ==
    IF Num(input.patient_age) < 65
    THEN Returned(<<>>, [ beers_applies |-> FALSE ])
    ELSE IF ~input.conditions.array THEN Thrown("conditions is not iterable")
    ELSE IF ~input.medications.array THEN Thrown("medications is not iterable")
    ELSE IF Some(input.medications.items, LAMBDA m : unusableName(m.name))
    THEN \* the loop throws at the first medication whose name it cannot use
         LET bad == MinOf({ i \in 1..Len(input.medications.items) :
                              unusableName(input.medications.items[i].name) })
         IN  IF input.medications.items[bad].name = NotAString
             THEN Thrown("(drugName || \"\").toLowerCase is not a function")
             ELSE Thrown("effects.some is not a function")
    ELSE
    LET medications == input.medications.items
        conditions == input.conditions.items
        icd_codes == input.icd_codes
        icd_result == IF Len(icd_codes) > 0 THEN getContraindicatedEffects(icd_codes)
                      ELSE [ conditionKeys |-> <<>>, avoidEffects |-> <<>>, byCondition |-> <<>> ]
        all_conditions == AddAll(<<>>, conditions \o icd_result.conditionKeys)
        acb_total == SumACB(medications, 1)
        cns_drugs == SelectSeq(medications, isCnsActive)
        cns_count == Len(cns_drugs)
        pim_found == SelectSeq(medications, LAMBDA m : getPIMInfo(m.name) # 0)
        condition_interactions ==
            Concat([i \in 1..Len(medications) |->
                BeersInteractions(OrEmpty(medications[i].name),
                                  getDrugEffects(OrEmpty(medications[i].name)),
                                  icd_result, conditions)])
        a1 == [i \in 1..Len(pim_found) |->
                 LET pim == PIM_DATABASE[getPIMInfo(pim_found[i].name)]
                 IN  Alert("BEERS_PIM_TABLE1", OrEmpty(pim_found[i].name), UndefList,
                           IF pim.severity = "AVOID" THEN "HIGH" ELSE "MODERATE",
                           <<"Beers Criteria PIM", pim.severity>>)]
        a2 == [i \in 1..Len(condition_interactions) |->
                 Alert("BEERS_DISEASE_INTERACTION", condition_interactions[i].drug, UndefList,
                       "HIGH",
                       <<"Beers disease interaction", condition_interactions[i].source>>
                       \o condition_interactions[i].harmful_effects
                       \o condition_interactions[i].conditions)]
        a3 == IF acb_total >= 3
              THEN << Alert("BEERS_ACB_HIGH", NullStr, UndefList, "HIGH",
                            <<"high anticholinergic burden", ToString(acb_total)>>) >>
              ELSE <<>>
        a4 == IF cns_count >= 3
              THEN << Alert("BEERS_CNS_POLYPHARMACY", NullStr, names(cns_drugs), "HIGH",
                            <<"CNS polypharmacy", ToString(cns_count)>>) >>
              ELSE <<>>
        a5 == IF /\ Truthy(input.ppi_duration_weeks)
                 /\ input.ppi_duration_weeks > 8
                 /\ Some(medications, LAMBDA m : InSeq("PPI_effects", getDrugEffects(m.name)))
              THEN << Alert("BEERS_PPI_LONG_TERM", NullStr, UndefList, "MODERATE",
                            <<"PPI use > 8 weeks">>) >>
              ELSE <<>>
    IN  Returned(a1 \o a2 \o a3 \o a4 \o a5,
                 [ beers_applies |-> TRUE, patient_age |-> input.patient_age,
                   pim_count |-> Len(pim_found),
                   condition_interaction_count |-> Len(condition_interactions),
                   acb_score |-> acb_total,
                   cns_active_count |-> cns_count,
                   icd_derived_conditions |-> icd_result.conditionKeys,
                   icd_avoid_effects |-> icd_result.avoidEffects,
                   all_conditions |-> all_conditions ])

RECURSIVE BeersUnknownLog(_, _, _, _)
\* the tracker state after BEERS_CRITERIA_CHECK has looked up the effects of
\* medications i.. (the loop stops at a name it throws at)
BeersUnknownLog(unk, medications, i, clock) ==
    IF i > Len(medications) THEN unk
    ELSE IF unusableName(medications[i].name) THEN unk
    ELSE BeersUnknownLog(
             IF reportsUnknown(OrEmpty(medications[i].name))
             THEN logUnknownDrug(unk, OrEmpty(medications[i].name), <<"B","E","E","R","S","_","D","R","U","G","_","E","F","F","E","C","T","S">>, clock)
             ELSE unk,
             medications, i + 1, clock)

\* ------------------------------------------------------------------------
\* ORCHESTRATOR (orchestrator.js, version 3.0.0)
\* ------------------------------------------------------------------------
SEVERITY_ORDER == [ CRITICAL |-> 1, HIGH |-> 2, MODERATE |-> 3, LOW |-> 4, INFO |-> 5 ]

\* (SEVERITY_ORDER[severity] || 99)
severityRank(severity) ==
    IF severity \in DOMAIN SEVERITY_ORDER THEN SEVERITY_ORDER[severity] ELSE 99

\* the six rule modules in the order the orchestrator runs them, by the key
\* they have in timing and function_results
MODULES == <<"renal", "triple", "opioid", "antithromb", "serotonin", "beers">>

\* the source label stamped on a module's alerts
SOURCE ==
    [ renal |-> "RENAL", triple |-> "TRIPLE_WHAMMY", opioid |-> "OPIOID",
      antithromb |-> "ANTITHROMB", serotonin |-> "SEROTONIN", beers |-> "BEERS" ]

\* the module name that opens the message of its SYSTEM_FUNCTION_ERROR alert
ERROR_PREFIX ==
    [ renal |-> "Renal", triple |-> "Triple", opioid |-> "Opioid",
      antithromb |-> "Antithromb", serotonin |-> "Serotonin", beers |-> "Beers" ]

\* a body that sorts before it deduplicates: C7 must fail for it
StageAfterSortFirst(stage) ==
    CASE stage = "INIT" -> "renal"
      [] stage = "renal" -> "triple"
      [] stage = "triple" -> "opioid"
      [] stage = "opioid" -> "antithromb"
      [] stage = "antithromb" -> "serotonin"
      [] stage = "serotonin" -> "beers"
      [] stage = "beers" -> "SORT"
      [] stage = "SORT" -> "DEDUPLICATE"
      [] stage = "DEDUPLICATE" -> "SUMMARIZE"
      [] stage = "SUMMARIZE" -> "DONE"

\* the stage that follows a stage in the body of MED_SAFETY_ENGINE
StageAfter(stage) ==
    CASE stage = "INIT" -> "renal"
      [] stage = "renal" -> "triple"
      [] stage = "triple" -> "opioid"
      [] stage = "opioid" -> "antithromb"
      [] stage = "antithromb" -> "serotonin"
      [] stage = "serotonin" -> "beers"
      [] stage = "beers" -> "DEDUPLICATE"
      [] stage = "DEDUPLICATE" -> "SORT"
      [] stage = "SORT" -> "SUMMARIZE"
      [] stage = "SUMMARIZE" -> "DONE"

\* an orchestrator that runs the renal module whenever egfr is provided,
\* as the comment above its block says: C28 must fail for it
ApplicableEgfrProvided(m, pd) ==
    CASE m = "renal" -> pd.egfr # NullNum
      [] m = "beers" -> Num(pd.patient_age) >= 65
      [] OTHER -> TRUE

\* an orchestrator that runs every module for every patient: C22 must fail
\* for it
ApplicableAlways(m, pd) == TRUE

\* the eligibility test in front of a module's try block
Applicable(m, pd) ==
    CASE m = "renal" -> pd.egfr # NullNum /\ pd.egfr < 90
      [] m = "beers" -> Num(pd.patient_age) >= 65
      [] OTHER -> TRUE

\* the call in each module's try block, with the input object built for it
InvokeRenal(pd) ==
    RENAL_DOSING_CHECK([ egfr |-> pd.egfr, medications |-> pd.current_medications ])

InvokeTriple(pd) ==
    TRIPLE_WHAMMY_CHECK([ medications |-> pd.current_medications,
                          active_illness |-> pd.active_illness, egfr |-> pd.egfr ])

InvokeOpioid(pd) ==
    OPIOID_SAFETY_CHECK([ medications |-> pd.current_medications,
                          patient_age |-> pd.patient_age, egfr |-> pd.egfr,
                          opioid_naive |-> pd.opioid_naive,
                          respiratory_disease |-> pd.respiratory_disease ])

InvokeAntithromb(pd, day) ==
    ANTITHROMBOTIC_COMBINATION_CHECK(
        [ medications |-> pd.current_medications, patient_age |-> pd.patient_age,
          egfr |-> pd.egfr, weight_kg |-> pd.weight_kg,
          atrial_fibrillation |-> pd.atrial_fibrillation,
          prior_gi_bleed |-> pd.prior_gi_bleed,
          recent_pci_date |-> pd.recent_pci_date, stent_type |-> pd.stent_type,
          liver_disease |-> pd.liver_disease, hb_low |-> pd.hb_low ], day)

InvokeSerotonin(pd, day) ==
    SEROTONIN_SYNDROME_CHECK(
        [ medications |-> pd.current_medications, patient_age |-> pd.patient_age,
          egfr |-> pd.egfr, liver_disease |-> pd.liver_disease,
          recent_maoi_use |-> pd.recent_maoi_use ], day)

InvokeBeers(pd) ==
    BEERS_CRITERIA_CHECK(
        [ patient_age |-> pd.patient_age, medications |-> pd.current_medications,
          conditions |-> pd.conditions, icd_codes |-> pd.icd_codes,
          egfr |-> pd.egfr, ppi_duration_weeks |-> pd.ppi_duration_weeks ])

\* the call of module m
Invoke(m, pd, day) ==
    CASE m = "renal" -> InvokeRenal(pd)
      [] m = "triple" -> InvokeTriple(pd)
      [] m = "opioid" -> InvokeOpioid(pd)
      [] m = "antithromb" -> InvokeAntithromb(pd, day)
      [] m = "serotonin" -> InvokeSerotonin(pd, day)
      [] m = "beers" -> InvokeBeers(pd)

\* a merge that also puts the module's label in front of the alert's text:
\* C27 must fail for it
WithSourceInMessage(a, label) ==
    [ f \in DOMAIN a \cup {"source"} |->
        IF f = "source" THEN <<label>>
        ELSE IF f = "message" THEN <<label>> \o a[f] ELSE a[f] ]

\* ({ ...a, source: label }); source is the list of the labels that a
\* ", "-separated source string holds
WithSource(a, label) ==
    [ f \in DOMAIN a \cup {"source"} |-> IF f = "source" THEN <<label>> ELSE a[f] ]

\* a catch block that files its alert under the failing module's own source
\* and code: C4 must fail for it
SystemAlertAsModule(m, error) ==
    WithSource(Alert(SOURCE[m], NullStr, UndefList, "HIGH", <<ERROR_PREFIX[m], error>>),
               SOURCE[m])

\* the alert pushed by a module's catch block
SystemAlert(m, error) ==
    WithSource(Alert("SYSTEM_FUNCTION_ERROR", NullStr, UndefList, "HIGH",
                     <<ERROR_PREFIX[m], error>>), "SYSTEM")

\* a key into which the drugs_involved list is folded: C24 must fail for it
dedupKeyWithDrugs(alert) ==
    << alert.alert_code, toLowerCase(OrEmpty(alert.drug)), alert.drugs_involved >>

\* `${alert.alert_code || ""}:${alert.drug || ""}`.toLowerCase(): the code and
\* the lower-cased drug (lower-casing is one-to-one on the registered codes,
\* which are upper-case and hold no colon)
dedupKey(alert) == << alert.alert_code, toLowerCase(OrEmpty(alert.drug)) >>

\* a Map whose entry is overwritten by every later alert with its key, which
\* leaves the last alert of each key: C9 must fail for it
SeenLastValues(alerts, i, seen) ==
    LET last == { p \in i..Len(alerts) :
                    \A q \in (p + 1)..Len(alerts) : dedupKey(alerts[q]) # dedupKey(alerts[p]) }
    IN  seen \o [ n \in 1..Cardinality(last) |->
                    alerts[CHOOSE p \in last : Cardinality({ q \in last : q <= p }) = n] ]

RECURSIVE SeenValues(_, _, _)
\* the values of the Map seen after the alerts from i on were offered to it:
\* a key is set once, by the first alert that has it
SeenValues(alerts, i, seen) ==
    IF i > Len(alerts) THEN seen
    ELSE SeenValues(alerts, i + 1,
                    IF \E k \in 1..Len(seen) : dedupKey(seen[k]) = dedupKey(alerts[i])
                    THEN seen
                    ELSE Append(seen, alerts[i]))

\* a sort that leaves the list as it was merged: C3 must fail for it
SortKeepsOrder(alerts, sorted) == sorted \o alerts

RECURSIVE SortBySeverity(_, _)
\* the stable Array.prototype.sort by severity rank: alerts[i..] inserted one
\* by one, each behind every alert whose rank is not greater
SortBySeverity(alerts, sorted) ==
    IF alerts = <<>> THEN sorted
    ELSE LET a == Head(alerts)
             ahead == { k \in 1..Len(sorted) :
                          severityRank(sorted[k].severity) <= severityRank(a.severity) }
             at == IF ahead = {} THEN 0 ELSE MaxOf(ahead)
         IN  SortBySeverity(Tail(alerts),
                            SubSeq(sorted, 1, at) \o <<a>> \o SubSeq(sorted, at + 1, Len(sorted)))

\* a count of all alerts, whatever their severity: C8 must fail for it
CountAll(alerts, severity) == Len(alerts)

\* all_alerts.filter(a => a.severity === severity).length
CountSeverity(alerts, severity) == Len(SelectSeq(alerts, LAMBDA a : a.severity = severity))

EmptyObject == [ f \in {} |-> TRUE ]

\* ------------------------------------------------------------------------
\* Bounds and the inputs explored
\* ------------------------------------------------------------------------
MaxMeds == 3

MaxClock == 1

MaxDay == 30

MaxCalls == 2

Med(name, class, dose) == [ name |-> name, class |-> class, dose |-> dose ]

\* the medications patients are drawn from; a patient takes up to MaxMeds
\* consecutive ones
Formulary == <<
    Med(<<"A","p","i","x","a","b","a","n","/","d","a","b","i","g","a","t","r","a","n">>, "anticoagulant_DOAC", <<"5","m","g"," ","B","I","D">>),
    Med(<<"l","i","s","i","n","o","p","r","i","l">>, "ACE_inhibitor", <<"1","0","m","g">>),
    Med(<<"f","u","r","o","s","e","m","i","d","e">>, "loop_diuretic", <<"4","0","m","g">>),
    Med(<<"I","b","u","p","r","o","f","e","n">>, "NSAID", <<"4","0","0","m","g"," ","T","I","D">>),
    Med(<<"s","e","r","t","r","a","l","i","n","e">>, "SSRI", <<"5","0","m","g">>),
    Med(<<"s","u","m","a","t","r","i","p","t","a","n">>, "triptan", <<"5","0","m","g">>),
    Med(<<"t","r","a","m","a","d","o","l">>, "opioid", <<"5","0","m","g"," ","T","I","D">>),
    Med(<<"L","o","r","a","z","e","p","a","m">>, "benzodiazepine", <<"1","m","g">>),
    Med(<<"l","o","r","a","z","e","p","a","m">>, "benzodiazepine", <<"0",".","5","m","g">>),
    Med(<<"m","e","t","f","o","r","m","i","n">>, "biguanide", <<"1","0","0","0","m","g"," ","B","I","D">>),
    Med(<<"o","x","y","c","o","d","o","n","e">>, "opioid", NotAString),
    Med(<<"r","i","v","a","r","o","x","a","b","a","n">>, "anticoagulant_DOAC", NotAString),
    Med(NotAString, "NSAID", NullStr) >>

MedicationLists ==
    { ListOf(SubSeq(Formulary, w[1], w[2])) :
          w \in { w \in (1..Len(Formulary)) \X (0..Len(Formulary)) :
                     w[2] - w[1] + 1 \in 0..MaxMeds } } \cup { NotAList }

NoIllness ==
    [ volume_depleted |-> FALSE, vomiting_diarrhea |-> FALSE, sepsis |-> FALSE,
      recent_surgery |-> FALSE, acute_infection |-> FALSE ]

NoMaoi == [ drug |-> NullStr, stopped_date |-> NullNum ]

\* a patient_data object after the destructuring defaults were applied
PatientData(meds, age, egfr, illness, conds, icd, maoi, pci) ==
    [ patient_age |-> age, weight_kg |-> NullNum, egfr |-> egfr,
      liver_disease |-> FALSE, heart_failure |-> FALSE,
      atrial_fibrillation |-> FALSE, prior_gi_bleed |-> FALSE,
      recent_pci_date |-> pci, stent_type |-> IF pci = NullNum THEN "" ELSE "DES",
      hb_low |-> FALSE, respiratory_disease |-> FALSE, opioid_naive |-> TRUE,
      active_illness |-> illness, current_medications |-> meds,
      conditions |-> conds, icd_codes |-> icd, recent_maoi_use |-> maoi,
      ppi_duration_weeks |-> NullNum ]

\* well-formed patients of every age and renal function, patients at two
\* ages and renal functions with every combination of malformed fields, and
\* a patient whose medications have a name and nothing else
Patients ==
    { PatientData(meds, age, egfr, NoIllness, ListOf(<<>>), <<>>, NoMaoi, NullNum) :
        meds \in MedicationLists,
        age \in {NullNum, 55, 82},
        egfr \in {NullNum, 20, 50, 95} }
    \cup
    { PatientData(meds, p[1], p[2], illness, c[1], c[2], maoi, NullNum) :
        meds \in MedicationLists,
        p \in { <<82, 20>>, <<55, NullNum>> },
        illness \in {NoIllness, [NoIllness EXCEPT !.volume_depleted = TRUE], NullObject},
        c \in { <<ListOf(<<>>), <<>>>>,
                <<ListOf(<<"dementia">>), << <<"f","0","3",".","9","0">> >> >>,
                <<NotAList, <<>>>> },
        maoi \in {NoMaoi, [drug |-> NotAString, stopped_date |-> 0]} }
    \cup
    \* the patient of the README's usage example, whose medications are given
    \* by name only: lisinopril, furosemide and ibuprofen at 78 years, eGFR 25
    { PatientData(ListOf(<< Med(<<"l","i","s","i","n","o","p","r","i","l">>, "", NullStr), Med(<<"f","u","r","o","s","e","m","i","d","e">>, "", NullStr),
                            Med(<<"i","b","u","p","r","o","f","e","n">>, "", NullStr) >>),
                  78, 25, NoIllness, ListOf(<<>>),
                  << <<"N","1","8",".","4">>, <<"I","1","0">>, <<"E","1","1",".","9">> >>, NoMaoi, NullNum) }

\* ------------------------------------------------------------------------
\* MED_SAFETY_ENGINE, stage by stage
\* ------------------------------------------------------------------------
\* no exported function has been called directly
NoCall == [ fn |-> "none", arg |-> <<>>, ret |-> <<>>, done |-> TRUE ]

Fresh(pd) ==
    /\ call = NoCall
    /\ patient_data = pd
    /\ pc = "INIT"
    /\ all_alerts = <<>>
    /\ function_results = EmptyObject
    /\ timing = EmptyObject
    /\ result = EmptyObject

\* one call, during which the millisecond clock reads the same value
Init ==
    /\ \E pd \in Patients : Fresh(pd)
    /\ now = MaxClock
    /\ today = MaxDay
    /\ unknown_drugs = [ sessionLogged |-> {}, logFile |-> <<>> ]
    /\ calls = 1
    /\ previous = [ result |-> EmptyObject, today |-> MaxDay ]

\* const {...} = patient_data; let all_alerts = []; function_results = {}; timing = {}
Start ==
    /\ pc = "INIT"
    /\ pc' = StageAfter("INIT")
    /\ all_alerts' = <<>>
    /\ function_results' = EmptyObject
    /\ timing' = EmptyObject
    /\ UNCHANGED << call, patient_data, result, now, today, unknown_drugs, calls, previous >>

\* one module block: timing start, eligibility, try { call; concat; metadata }
\* catch { push SYSTEM_FUNCTION_ERROR }, timing end
\* r is the outcome of the call, applicable the block's if condition
RunModule(m, applicable, r) ==
    /\ pc = m
    /\ pc' = StageAfter(m)
    /\ all_alerts' =
           IF ~applicable THEN all_alerts
           ELSE IF r.ok
           THEN all_alerts \o [i \in 1..Len(r.alerts) |-> WithSource(r.alerts[i], SOURCE[m])]
           ELSE Append(all_alerts, SystemAlert(m, r.error))
    /\ function_results' =
           IF applicable /\ r.ok
           THEN function_results @@ (m :> r.metadata)
           ELSE function_results
    /\ \E elapsed \in 0..(MaxClock - now) :
           /\ now' = now + elapsed
           /\ timing' = timing @@ (m :> elapsed)
    /\ UNCHANGED << call, patient_data, result, today, calls, previous >>

RunRenal ==
    /\ RunModule("renal", Applicable("renal", patient_data), InvokeRenal(patient_data))
    /\ UNCHANGED unknown_drugs

RunTriple ==
    /\ RunModule("triple", TRUE, InvokeTriple(patient_data))
    /\ UNCHANGED unknown_drugs

RunOpioid ==
    /\ RunModule("opioid", TRUE, InvokeOpioid(patient_data))
    /\ UNCHANGED unknown_drugs

RunAntithromb ==
    /\ RunModule("antithromb", TRUE, InvokeAntithromb(patient_data, today))
    /\ UNCHANGED unknown_drugs

RunSerotonin ==
    /\ RunModule("serotonin", TRUE, InvokeSerotonin(patient_data, today))
    /\ UNCHANGED unknown_drugs

\* BEERS_CRITERIA_CHECK also reports the drugs it does not know to the tracker
RunBeers ==
    /\ RunModule("beers", Applicable("beers", patient_data), InvokeBeers(patient_data))
    /\ unknown_drugs' =
           IF /\ Applicable("beers", patient_data)
              /\ patient_data.conditions.array
              /\ patient_data.current_medications.array
           THEN BeersUnknownLog(unknown_drugs, patient_data.current_medications.items, 1, now)
           ELSE unknown_drugs

Deduplicate ==
    /\ pc = "DEDUPLICATE"
    /\ pc' = StageAfter("DEDUPLICATE")
    /\ all_alerts' = SeenValues(all_alerts, 1, <<>>)
    /\ UNCHANGED << call, patient_data, function_results, timing, result, now, today,
                    unknown_drugs, calls, previous >>

Sort ==
    /\ pc = "SORT"
    /\ pc' = StageAfter("SORT")
    /\ all_alerts' = SortBySeverity(all_alerts, <<>>)
    /\ UNCHANGED << call, patient_data, function_results, timing, result, now, today,
                    unknown_drugs, calls, previous >>

Summarize ==
    /\ pc = "SUMMARIZE"
    /\ pc' = StageAfter("SUMMARIZE")
    /\ result' =
           [ alert_count |-> Len(all_alerts),
             critical_count |-> CountSeverity(all_alerts, "CRITICAL"),
             high_count |-> CountSeverity(all_alerts, "HIGH"),
             has_blocking_alerts |-> \E i \in 1..Len(all_alerts) : all_alerts[i].severity = "CRITICAL",
             alerts |-> all_alerts,
             function_results |-> function_results,
             timing |-> timing ]
    /\ UNCHANGED << call, patient_data, all_alerts, function_results, timing, now, today,
                    unknown_drugs, calls, previous >>

Next ==
    \/ Start
    \/ RunRenal
    \/ RunTriple
    \/ RunOpioid
    \/ RunAntithromb
    \/ RunSerotonin
    \/ RunBeers
    \/ Deduplicate
    \/ Sort
    \/ Summarize

Spec == Init /\ [][Next]_vars

\* what every stage of the body does to pc: control passes to the stage that
\* follows.  Every step of Next is such a step, and a stage is enabled
\* wherever pc is not DONE, so fairness for Step is fairness for Next.
Step == pc # "DONE" /\ pc' = StageAfter(pc)

\* a second specification with the same call under weak fairness: the body
\* of MED_SAFETY_ENGINE is synchronous and runs on once entered
LiveSpec == Init /\ [][Next]_vars /\ WF_pc(Step)

\* ------------------------------------------------------------------------
\* Repeated calls: the same patient_data evaluated again later in the life
\* of the process, while the clock runs
\* ------------------------------------------------------------------------
PatientsRepeat ==
    { \* triple antithrombotic therapy, drug-eluting stent placed 30 days before MaxDay
      PatientData(ListOf(<< Med(<<"w","a","r","f","a","r","i","n">>, "anticoagulant_warfarin", <<"5","m","g">>),
                            Med(<<"a","s","p","i","r","i","n">>, "antiplatelet_aspirin", <<"8","1","m","g">>),
                            Med(<<"c","l","o","p","i","d","o","g","r","e","l">>, "antiplatelet_P2Y12", <<"7","5","m","g">>) >>),
                  55, NullNum, NoIllness, ListOf(<<>>), <<>>, NoMaoi, MaxDay - 30),
      \* an SSRI started while a MAOI was stopped 14 days before MaxDay
      PatientData(ListOf(<< Med(<<"s","e","r","t","r","a","l","i","n","e">>, "SSRI", <<"5","0","m","g">>) >>),
                  55, NullNum, NoIllness, ListOf(<<>>), <<>>,
                  [ drug |-> <<"p","h","e","n","e","l","z","i","n","e">>, stopped_date |-> MaxDay - 14 ], NullNum),
      \* an older patient on a drug no table knows
      PatientData(ListOf(<< Med(<<"Z","z","z","q","u","i","l">>, "", <<"1"," ","t","a","b">>),
                            Med(<<"l","o","r","a","z","e","p","a","m">>, "benzodiazepine", <<"1","m","g">>) >>),
                  82, 50, NoIllness, ListOf(<<"dementia">>), <<>>, NoMaoi, NullNum),
      PatientData(ListOf(<< Med(<<"m","e","t","f","o","r","m","i","n">>, "biguanide", <<"1","0","0","0","m","g"," ","B","I","D">>) >>),
                  55, 50, NoIllness, ListOf(<<>>), <<>>, NoMaoi, NullNum) }

InitRepeat ==
    /\ \E pd \in PatientsRepeat : Fresh(pd)
    /\ now = 0
    /\ today = MaxDay - 1
    /\ unknown_drugs = [ sessionLogged |-> {}, logFile |-> <<>> ]
    /\ calls = 1
    /\ previous = [ result |-> EmptyObject, today |-> MaxDay - 1 ]

\* the caller keeps the result and calls MED_SAFETY_ENGINE again with the
\* same patient_data, the same day or the day after
CallAgain ==
    /\ pc = "DONE"
    /\ calls < MaxCalls
    /\ calls' = calls + 1
    /\ previous' = [ result |-> result, today |-> today ]
    /\ \E later \in 0..1 :
           /\ today + later <= MaxDay
           /\ today' = today + later
    /\ pc' = "INIT"
    /\ all_alerts' = <<>>
    /\ function_results' = EmptyObject
    /\ timing' = EmptyObject
    /\ result' = EmptyObject
    /\ UNCHANGED << call, patient_data, now, unknown_drugs >>

NextRepeat == Next \/ CallAgain

SpecRepeat == InitRepeat /\ [][NextRepeat]_vars

\* the module was invoked for this patient and its call threw
Threw(m, pd, day) == Applicable(m, pd) /\ ~Invoke(m, pd, day).ok

\* ------------------------------------------------------------------------
\* Properties
\* ------------------------------------------------------------------------

\* C1: in the deduplication step, when two merged alerts share the
\* lower-cased (alert_code, drug) key and differ in severity, the alert kept
\* for that key has the lower severity rank of the two, whichever came first.
C1_DedupKeepsMostSevere ==
    [][ pc = "DEDUPLICATE" =>
          \A i, j \in 1..Len(all_alerts) :
              ( /\ dedupKey(all_alerts[i]) = dedupKey(all_alerts[j])
                /\ severityRank(all_alerts[i].severity) < severityRank(all_alerts[j].severity) )
              => /\ \E k \in 1..Len(all_alerts') : dedupKey(all_alerts'[k]) = dedupKey(all_alerts[i])
                 /\ \A k \in 1..Len(all_alerts') :
                        dedupKey(all_alerts'[k]) = dedupKey(all_alerts[i])
                        => severityRank(all_alerts'[k].severity)
                               <= severityRank(all_alerts[i].severity) ]_vars

\* C2: in the deduplication step, when two merged alerts share the key and
\* have equal severity, the first-seen alert is kept and its source becomes
\* the concatenation of the source labels of both.
C2_DedupConcatenatesSources ==
    [][ pc = "DEDUPLICATE" =>
          \A i, j \in 1..Len(all_alerts) :
              ( /\ i < j
                /\ { k \in 1..Len(all_alerts) : dedupKey(all_alerts[k]) = dedupKey(all_alerts[i]) } = {i, j}
                /\ all_alerts[i].severity = all_alerts[j].severity )
              => \E k \in 1..Len(all_alerts') :
                     all_alerts'[k] =
                         [all_alerts[i] EXCEPT !.source = all_alerts[i].source \o all_alerts[j].source] ]_vars

\* C3: the returned alerts are sorted by severity rank, CRITICAL=1, HIGH=2,
\* MODERATE=3, LOW=4, INFO=5 and any other severity behind these.
C3_SortedBySeverity ==
    pc = "DONE" =>
        LET rank(a) == CASE a.severity = "CRITICAL" -> 1
                         [] a.severity = "HIGH" -> 2
                         [] a.severity = "MODERATE" -> 3
                         [] a.severity = "LOW" -> 4
                         [] a.severity = "INFO" -> 5
                         [] OTHER -> 99
        IN  \A i \in 1..(Len(result.alerts) - 1) :
                rank(result.alerts[i]) <= rank(result.alerts[i + 1])

\* a result in which sorting moved a Beers alert in front of a renal one
C3_Witness ==
    /\ pc = "DONE"
    /\ \E i, j \in 1..Len(result.alerts) :
           /\ i < j
           /\ result.alerts[i].source = <<"BEERS">>
           /\ result.alerts[j].source = <<"RENAL">>
           /\ result.alerts[i].severity = "HIGH"
           /\ result.alerts[j].severity = "MODERATE"

C5_EveryFailureReported ==
    pc = "DONE" =>
        \A k \in 1..Len(MODULES) :
            Threw(MODULES[k], patient_data, today)
            => \E n \in 1..Len(result.alerts) :
                   /\ result.alerts[n].alert_code = "SYSTEM_FUNCTION_ERROR"
                   /\ result.alerts[n].severity = "HIGH"
                   /\ result.alerts[n].message[1] = ERROR_PREFIX[MODULES[k]]

\* C6: when current_medications is not a list, no rule module is invoked (no
\* module's catch block has run, no module has stored metadata) and the
\* result holds validation alerts, all CRITICAL, and has_blocking_alerts.
C6_MalformedInputShortCircuits ==
    (pc = "DONE" /\ ~patient_data.current_medications.array) =>
        /\ result.function_results = EmptyObject
        /\ \A n \in 1..Len(result.alerts) :
               /\ result.alerts[n].alert_code # "SYSTEM_FUNCTION_ERROR"
               /\ result.alerts[n].severity = "CRITICAL"
        /\ result.alert_count >= 1
        /\ result.has_blocking_alerts

\* C7: every call goes INIT, renal, triple whammy, opioid, antithrombotic,
\* serotonin, Beers, deduplication, sorting, summary, DONE in this order,
\* whichever modules throw; the summary is computed from the deduplicated and
\* sorted list; and every call ends in DONE.
C7_StagesInOrder ==
    /\ [][ \/ pc = "INIT" /\ pc' = "renal"
           \/ pc = "renal" /\ pc' = "triple"
           \/ pc = "triple" /\ pc' = "opioid"
           \/ pc = "opioid" /\ pc' = "antithromb"
           \/ pc = "antithromb" /\ pc' = "serotonin"
           \/ pc = "serotonin" /\ pc' = "beers"
           \/ pc = "beers" /\ pc' = "DEDUPLICATE"
           \/ pc = "DEDUPLICATE" /\ pc' = "SORT"
           \/ /\ pc = "SORT" /\ pc' = "SUMMARIZE"
              /\ \A i, j \in 1..Len(all_alerts) :
                     i # j => dedupKey(all_alerts[i]) # dedupKey(all_alerts[j])
           \/ /\ pc = "SUMMARIZE" /\ pc' = "DONE"
              /\ result'.alerts = all_alerts
              /\ \A i, j \in 1..Len(all_alerts) :
                     i # j => dedupKey(all_alerts[i]) # dedupKey(all_alerts[j])
              /\ \A i \in 1..(Len(all_alerts) - 1) :
                     severityRank(all_alerts[i].severity) <= severityRank(all_alerts[i + 1].severity)
       ]_vars
    /\ (pc = "INIT") ~> (pc = "DONE")

\* a call that ended in DONE although three modules threw
C7_Witness ==
    /\ pc = "DONE"
    /\ Cardinality({ k \in 1..Len(MODULES) : Threw(MODULES[k], patient_data, today) }) = 3
    /\ Cardinality(DOMAIN result.function_results) >= 2

\* C8: alert_count, critical_count and high_count count the alerts of the
\* returned list, and has_blocking_alerts is true exactly when critical_count > 0.
C8_SummaryDerivedFromAlerts ==
    pc = "DONE" =>
        /\ result.alert_count = Cardinality(DOMAIN result.alerts)
        /\ result.critical_count =
               Cardinality({ n \in DOMAIN result.alerts : result.alerts[n].severity = "CRITICAL" })
        /\ result.high_count =
               Cardinality({ n \in DOMAIN result.alerts : result.alerts[n].severity = "HIGH" })
        /\ result.has_blocking_alerts = (result.critical_count > 0)

\* a result with critical, high and other alerts
C8_Witness ==
    /\ pc = "DONE"
    /\ result.critical_count >= 1
    /\ result.high_count >= 2
    /\ result.alert_count > result.critical_count + result.high_count
    /\ result.has_blocking_alerts

\* C9: among returned alerts of equal severity, an alert of an earlier-run
\* module precedes one of a later-run module, alerts of one module keep the
\* order in which it emitted them, and each returned alert is the first one
\* its module emitted with that key.
C9_MergeOrderKept ==
    pc = "DONE" =>
        LET isSystem(a) == a.source = <<"SYSTEM">>
            module(a) == CHOOSE k \in 1..Len(MODULES) :
                             IF isSystem(a) THEN a.message[1] = ERROR_PREFIX[MODULES[k]]
                             ELSE a.source = <<SOURCE[MODULES[k]]>>
            emitted(a) == Invoke(MODULES[module(a)], patient_data, today).alerts
            position(a) ==
                IF isSystem(a) THEN 1
                ELSE MinOf({ p \in 1..Len(emitted(a)) : dedupKey(emitted(a)[p]) = dedupKey(a) })
        IN  /\ \A n \in 1..Len(result.alerts) :
                   ~isSystem(result.alerts[n]) =>
                       result.alerts[n] =
                           WithSource(emitted(result.alerts[n])[position(result.alerts[n])],
                                      SOURCE[MODULES[module(result.alerts[n])]])
            /\ \A i, j \in 1..Len(result.alerts) :
                   (i < j /\ result.alerts[i].severity = result.alerts[j].severity) =>
                       \/ module(result.alerts[i]) < module(result.alerts[j])
                       \/ /\ module(result.alerts[i]) = module(result.alerts[j])
                          /\ position(result.alerts[i]) < position(result.alerts[j])

\* a result with equal-severity alerts of two modules and of one module,
\* after a key of the merged list was dropped by deduplication
C9_Witness ==
    /\ pc = "DONE"
    /\ \E i, j, k \in 1..Len(result.alerts) :
           /\ i < j /\ j < k
           /\ result.alerts[i].severity = "HIGH"
           /\ result.alerts[j].severity = "HIGH"
           /\ result.alerts[k].severity = "HIGH"
           /\ result.alerts[i].source = <<"OPIOID">>
           /\ result.alerts[j].source = <<"OPIOID">>
           /\ result.alerts[k].source = <<"BEERS">>
    /\ Len(Invoke("beers", patient_data, today).alerts)
           > Len(SelectSeq(result.alerts, LAMBDA a : a.source = <<"BEERS">>))

EFFECTS_VOCABULARY == <<
  [tag |-> <<"h","y","p","o","t","e","n","s","i","v","e">>, aliases |-> <<>>],
  [tag |-> <<"b","r","a","d","y","c","a","r","d","i","c">>, aliases |-> <<>>],
  [tag |-> <<"q","t","_","p","r","o","l","o","n","g","i","n","g">>, aliases |-> <<<<"Q","T","_","p","r","o","l","o","n","g","i","n","g">>>>],
  [tag |-> <<"f","l","u","i","d","_","r","e","t","e","n","t","i","o","n">>, aliases |-> <<>>],
  [tag |-> <<"s","e","d","a","t","i","n","g">>, aliases |-> <<>>],
  [tag |-> <<"a","n","t","i","c","h","o","l","i","n","e","r","g","i","c">>, aliases |-> <<>>],
  [tag |-> <<"d","o","p","a","m","i","n","e","_","b","l","o","c","k","i","n","g">>, aliases |-> <<>>],
  [tag |-> <<"s","e","r","o","t","o","n","e","r","g","i","c">>, aliases |-> <<>>],
  [tag |-> <<"s","e","i","z","u","r","e","_","l","o","w","e","r","i","n","g">>, aliases |-> <<>>],
  [tag |-> <<"f","a","l","l","_","r","i","s","k">>, aliases |-> <<>>],
  [tag |-> <<"r","e","s","p","i","r","a","t","o","r","y","_","d","e","p","r","e","s","s","a","n","t">>, aliases |-> <<>>],
  [tag |-> <<"o","p","i","o","i","d">>, aliases |-> <<>>],
  [tag |-> <<"c","o","n","s","t","i","p","a","t","i","n","g">>, aliases |-> <<>>],
  [tag |-> <<"n","e","p","h","r","o","t","o","x","i","c">>, aliases |-> <<>>],
  [tag |-> <<"h","y","p","e","r","k","a","l","e","m","i","a","_","r","i","s","k">>, aliases |-> <<>>],
  [tag |-> <<"h","y","p","o","k","a","l","e","m","i","a","_","r","i","s","k">>, aliases |-> <<>>],
  [tag |-> <<"l","a","c","t","i","c","_","a","c","i","d","o","s","i","s","_","r","i","s","k">>, aliases |-> <<>>],
  [tag |-> <<"h","y","p","o","g","l","y","c","e","m","i","a">>, aliases |-> <<>>],
  [tag |-> <<"h","y","p","o","g","l","y","c","e","m","i","a","_","p","r","o","l","o","n","g","e","d">>, aliases |-> <<>>],
  [tag |-> <<"g","i","_","b","l","e","e","d","i","n","g">>, aliases |-> <<<<"G","I","_","b","l","e","e","d","i","n","g">>>>],
  [tag |-> <<"h","e","p","a","t","o","t","o","x","i","c">>, aliases |-> <<>>],
  [tag |-> <<"p","p","i","_","e","f","f","e","c","t","s">>, aliases |-> <<<<"P","P","I","_","e","f","f","e","c","t","s">>>>],
  [tag |-> <<"s","i","a","d","h">>, aliases |-> <<<<"S","I","A","D","H">>>>],
  [tag |-> <<"a","n","t","i","p","l","a","t","e","l","e","t">>, aliases |-> <<>>],
  [tag |-> <<"a","n","t","i","c","o","a","g","u","l","a","n","t">>, aliases |-> <<>>],
  [tag |-> <<"b","l","e","e","d","i","n","g","_","r","i","s","k">>, aliases |-> <<>>] >>

\* the characters of every effect tag literal of the tables and the vocabulary
Spell ==
  ("hypotensive" :> <<"h","y","p","o","t","e","n","s","i","v","e">>) @@
  ("bradycardic" :> <<"b","r","a","d","y","c","a","r","d","i","c">>) @@
  ("qt_prolonging" :> <<"q","t","_","p","r","o","l","o","n","g","i","n","g">>) @@
  ("QT_prolonging" :> <<"Q","T","_","p","r","o","l","o","n","g","i","n","g">>) @@
  ("fluid_retention" :> <<"f","l","u","i","d","_","r","e","t","e","n","t","i","o","n">>) @@
  ("sedating" :> <<"s","e","d","a","t","i","n","g">>) @@
  ("anticholinergic" :> <<"a","n","t","i","c","h","o","l","i","n","e","r","g","i","c">>) @@
  ("dopamine_blocking" :> <<"d","o","p","a","m","i","n","e","_","b","l","o","c","k","i","n","g">>) @@
  ("serotonergic" :> <<"s","e","r","o","t","o","n","e","r","g","i","c">>) @@
  ("seizure_lowering" :> <<"s","e","i","z","u","r","e","_","l","o","w","e","r","i","n","g">>) @@
  ("fall_risk" :> <<"f","a","l","l","_","r","i","s","k">>) @@
  ("respiratory_depressant" :> <<"r","e","s","p","i","r","a","t","o","r","y","_","d","e","p","r","e","s","s","a","n","t">>) @@
  ("opioid" :> <<"o","p","i","o","i","d">>) @@
  ("constipating" :> <<"c","o","n","s","t","i","p","a","t","i","n","g">>) @@
  ("nephrotoxic" :> <<"n","e","p","h","r","o","t","o","x","i","c">>) @@
  ("hyperkalemia_risk" :> <<"h","y","p","e","r","k","a","l","e","m","i","a","_","r","i","s","k">>) @@
  ("hypokalemia_risk" :> <<"h","y","p","o","k","a","l","e","m","i","a","_","r","i","s","k">>) @@
  ("lactic_acidosis_risk" :> <<"l","a","c","t","i","c","_","a","c","i","d","o","s","i","s","_","r","i","s","k">>) @@
  ("hypoglycemia" :> <<"h","y","p","o","g","l","y","c","e","m","i","a">>) @@
  ("hypoglycemia_prolonged" :> <<"h","y","p","o","g","l","y","c","e","m","i","a","_","p","r","o","l","o","n","g","e","d">>) @@
  ("gi_bleeding" :> <<"g","i","_","b","l","e","e","d","i","n","g">>) @@
  ("GI_bleeding" :> <<"G","I","_","b","l","e","e","d","i","n","g">>) @@
  ("hepatotoxic" :> <<"h","e","p","a","t","o","t","o","x","i","c">>) @@
  ("ppi_effects" :> <<"p","p","i","_","e","f","f","e","c","t","s">>) @@
  ("PPI_effects" :> <<"P","P","I","_","e","f","f","e","c","t","s">>) @@
  ("siadh" :> <<"s","i","a","d","h">>) @@
  ("SIADH" :> <<"S","I","A","D","H">>) @@
  ("antiplatelet" :> <<"a","n","t","i","p","l","a","t","e","l","e","t">>) @@
  ("anticoagulant" :> <<"a","n","t","i","c","o","a","g","u","l","a","n","t">>) @@
  ("bleeding_risk" :> <<"b","l","e","e","d","i","n","g","_","r","i","s","k">>) @@
  ("muscle_relaxant_effect" :> <<"m","u","s","c","l","e","_","r","e","l","a","x","a","n","t","_","e","f","f","e","c","t">>) @@
  ("neurotoxic" :> <<"n","e","u","r","o","t","o","x","i","c">>) @@
  ("CNS_effects" :> <<"C","N","S","_","e","f","f","e","c","t","s">>) @@
  ("arrhythmogenic" :> <<"a","r","r","h","y","t","h","m","o","g","e","n","i","c">>) @@
  ("narrow_therapeutic_index" :> <<"n","a","r","r","o","w","_","t","h","e","r","a","p","e","u","t","i","c","_","i","n","d","e","x">>) @@
  ("thyroid_effects" :> <<"t","h","y","r","o","i","d","_","e","f","f","e","c","t","s">>) @@
  ("pulmonary_toxicity" :> <<"p","u","l","m","o","n","a","r","y","_","t","o","x","i","c","i","t","y">>) @@
  ("reflex_tachycardia" :> <<"r","e","f","l","e","x","_","t","a","c","h","y","c","a","r","d","i","a">>) @@
  ("rebound_hypertension" :> <<"r","e","b","o","u","n","d","_","h","y","p","e","r","t","e","n","s","i","o","n">>) @@
  ("cognitive_effects" :> <<"c","o","g","n","i","t","i","v","e","_","e","f","f","e","c","t","s">>) @@
  ("hypertensive" :> <<"h","y","p","e","r","t","e","n","s","i","v","e">>) @@
  ("drug_interactions" :> <<"d","r","u","g","_","i","n","t","e","r","a","c","t","i","o","n","s">>) @@
  ("tendon_rupture" :> <<"t","e","n","d","o","n","_","r","u","p","t","u","r","e">>)

\* Object.keys(EFFECTS_VOCABULARY)
ALLOWED_EFFECTS == [ i \in 1..Len(EFFECTS_VOCABULARY) |-> EFFECTS_VOCABULARY[i].tag ]

\* the entries of ALIAS_TO_CANONICAL as the loop at load time writes them:
\* per canonical tag its aliases, their lower-case forms, and the tag itself
ALIAS_TO_CANONICAL ==
    Concat([ i \in 1..Len(EFFECTS_VOCABULARY) |->
        Concat([ k \in 1..Len(EFFECTS_VOCABULARY[i].aliases) |->
            << [ alias |-> EFFECTS_VOCABULARY[i].aliases[k],
                 canonical |-> EFFECTS_VOCABULARY[i].tag ],
               [ alias |-> toLowerCase(EFFECTS_VOCABULARY[i].aliases[k]),
                 canonical |-> EFFECTS_VOCABULARY[i].tag ] >> ])
        \o << [ alias |-> EFFECTS_VOCABULARY[i].tag,
                canonical |-> EFFECTS_VOCABULARY[i].tag ] >> ])

\* ALIAS_TO_CANONICAL[key]: the declared value (the last one written), an
\* inherited member, or NullStr for undefined
aliasLookup(key) ==
    LET own == { k \in 1..Len(ALIAS_TO_CANONICAL) : ALIAS_TO_CANONICAL[k].alias = key }
    IN  IF own # {} THEN ALIAS_TO_CANONICAL[MaxOf(own)].canonical
        ELSE IF key \in InheritedKeys THEN NotText
        ELSE NullStr

\* normEffectTag: the deprecation warning it prints is not part of the result
normEffectTag(tag) ==
    IF tag = <<>> \/ ~IsText(tag) THEN <<>>
    ELSE IF aliasLookup(trim(tag)) # NullStr THEN aliasLookup(trim(tag))
    ELSE toLowerCase(trim(tag))

isValidEffect(effect) ==
    IF effect = <<>> \/ ~IsText(effect) THEN FALSE
    ELSE InSeq(normEffectTag(effect), ALLOWED_EFFECTS)

\* ------------------------------------------------------------------------
\* Direct calls of the exported functions
\* ------------------------------------------------------------------------
\* a call that has not returned yet
LibCall(fn, arg) == [ fn |-> fn, arg |-> arg, ret |-> <<>>, done |-> FALSE ]

MaxCodes == 2

MaxSymptoms == 3

\* sequences of up to n elements of the sequence pool, in pool order
\* (an element may repeat)
RECURSIVE ListsFrom(_, _, _)
ListsFrom(pool, from, n) ==
    IF n = 0 THEN { <<>> }
    ELSE { <<>> } \cup
         UNION { { <<pool[i]>> \o rest : rest \in ListsFrom(pool, i, n - 1) } :
                 i \in from..Len(pool) }

\* the calls made: every function with every input drawn for it
LibCalls ==
    LET \* tags as a caller may write them: every tag literal of the tables and
        \* the vocabulary, in upper case, padded, and values that are no tags
        EffectTagInputs ==
            { Spell[t] : t \in DOMAIN Spell }
            \cup { toUpperCase(Spell[t]) : t \in DOMAIN Spell }
            \cup { <<" ">> \o Spell[t] \o <<" "," ">> : t \in DOMAIN Spell }
            \cup InheritedKeys
            \cup { NullStr, <<>>, NotAString, <<" "," ">>, <<"Q","t","_","P","r","o","l","o","n","g","i","n","g">>, <<"s","e","d","a","t","i","n","g"," ","e","f","f","e","c","t">> }
        \* drug names as they reach the lookups: every key of the two tables,
        \* and names with a dose, in capitals, padded, partial, unknown, missing
        DrugNameInputs ==
            { DRUG_EFFECTS[k].drug : k \in 1..Len(DRUG_EFFECTS) }
            \cup { ACB_SCORES[k].drug : k \in 1..Len(ACB_SCORES) }
            \cup { <<"O","x","y","c","o","d","o","n","e"," ","1","0","m","g">>, <<" ","T","r","i","m","i","p","r","a","m","i","n","e"," ">>, <<"e","s","o","m","e","p","r","a","z","o","l","e"," ","2","0","m","g">>, <<"E","S","C","I","T","A","L","O","P","R","A","M">>,
                   <<"l","e","v","o","c","e","t","i","r","i","z","i","n","e"," ","5","m","g">>, <<"i","n","e">>, <<"p","a","m">>, <<"x","y","z","a","l">>, <<"v","i","t","a","m","i","n"," ","d","3">>, <<"a","b">>,
                   <<"c","o","n","s","t","r","u","c","t","o","r">>, <<"t","o","S","t","r","i","n","g">>, <<>>, NullStr }
        \* diagnosis codes: dotted, padded, in lower case, too short, unlisted
        IcdCodePool ==
            << <<"I","5","0","3","2">>, <<"G","3","1","1">>, <<"m","8","0">>, <<"F","0","3",".","9","0">>, <<"G","2","0">>, <<" ","g","3","0",".","9"," ">>, <<"I","5">>, <<"Z","9","9",".","8","9">>,
               <<"K","9","2",".","2">>, <<"I","4","5",".","8","1">>, NullStr >>
        \* symptoms in the table's spelling, in capitals, and one no toxidrome lists
        SymptomPool ==
            << <<"m","i","o","s","i","s">>, <<"d","e","c","r","e","a","s","e","d","_","L","O","C">>, <<"b","r","a","d","y","c","a","r","d","i","a">>, <<"M","Y","D","R","I","A","S","I","S">>, <<"h","y","p","e","r","t","h","e","r","m","i","a">>,
               <<"r","e","s","p","i","r","a","t","o","r","y","_","d","e","p","r","e","s","s","i","o","n">>, <<"t","a","c","h","y","c","a","r","d","i","a">>, <<"A","g","i","t","a","t","i","o","n">>, <<"h","e","a","d","a","c","h","e">> >>
        \* patients of 70 with every medication list, three sets of legacy
        \* conditions and three sets of diagnosis codes, and a few with other
        \* ages and fields
        BeersNamePool ==
            << <<"a","m","i","t","r","i","p","t","y","l","i","n","e">>, <<"H","y","d","r","o","x","y","z","i","n","e"," ","2","5","m","g">>, <<"d","i","p","h","e","n","h","y","d","r","a","m","i","n","e">>, <<"q","u","e","t","i","a","p","i","n","e">>,
               <<"o","m","e","p","r","a","z","o","l","e">>, <<"x","y","z","a","l">>, <<"c","o","n","s","t","r","u","c","t","o","r">>, NullStr >>
        BeersInput(meds, age, conds, icd, weeks) ==
            [ patient_age |-> age, medications |-> meds, conditions |-> conds,
              icd_codes |-> icd, egfr |-> NullNum, ppi_duration_weeks |-> weeks ]
        BeersInputs ==
            { BeersInput(ListOf([ i \in 1..Len(l) |-> Med(l[i], "", NullStr) ]), 70,
                         ListOf(conds), icd, NullNum) :
                l \in ListsFrom(BeersNamePool, 1, MaxMeds),
                conds \in { <<>>, <<"dementia">>, <<"parkinson", "dementia">> },
                icd \in { <<>>, << <<"G","2","0">> >>, << <<"G","2","0">>, <<"F","0","3",".","9","0">> >> } }
            \cup
            { BeersInput(ListOf(<< Med(<<"a","m","i","t","r","i","p","t","y","l","i","n","e">>, "", NullStr),
                                   Med(<<"o","m","e","p","r","a","z","o","l","e">>, "", NullStr) >>),
                         age, conds, <<>>, weeks) :
                age \in { NullNum, 64, 65 }, conds \in { ListOf(<<>>), NotAList },
                weeks \in { NullNum, 12 } }
        \* medications with and without a renal rule, one whose name holds the
        \* drugs of two rules, NSAIDs known by their class alone, and renal
        \* functions on both sides of every egfr_max of their rules
        RenalPool ==
            << Med(<<"m","e","t","f","o","r","m","i","n">>, "biguanide", <<"1","0","0","0","m","g"," ","B","I","D">>),
               Med(<<"G","a","b","a","p","e","n","t","i","n"," ","3","0","0","m","g">>, "gabapentinoid", NullStr),
               Med(<<"A","p","i","x","a","b","a","n","/","d","a","b","i","g","a","t","r","a","n">>, "anticoagulant_DOAC", NullStr),
               Med(<<"n","a","p","r","o","x","e","n">>, "NSAID", NullStr),
               Med(<<"C","e","l","e","b","r","e","x">>, "COX2_inhibitor", NullStr),
               Med(<<"l","i","s","i","n","o","p","r","i","l">>, "ACE_inhibitor", NullStr),
               Med(NullStr, "NSAID", NullStr) >>
        RenalInputs ==
            { [ egfr |-> egfr, medications |-> ListOf(l) ] :
                l \in ListsFrom(RenalPool, 1, MaxMeds),
                egfr \in { NullNum, 10, 20, 29, 30, 44, 50, 59, 60, 95 } }
    IN  \/ \E tag \in EffectTagInputs : call = LibCall("normEffectTag", tag)
        \/ \E tag \in EffectTagInputs : call = LibCall("isValidEffect", tag)
        \/ \E name \in DrugNameInputs : call = LibCall("getDrugEffects", name)
        \/ \E name \in DrugNameInputs : call = LibCall("getACBScore", name)
        \/ \E codes \in ListsFrom(IcdCodePool, 1, MaxCodes) :
               call = LibCall("deriveConditionsFromICD", codes)
        \/ \E codes \in ListsFrom(IcdCodePool, 1, MaxCodes) :
               call = LibCall("getContraindicatedEffects", codes)
        \/ \E input \in BeersInputs : call = LibCall("BEERS_CRITERIA_CHECK", input)
        \/ \E symptoms \in ListsFrom(SymptomPool, 1, MaxSymptoms) :
               call = LibCall("identifyToxidrome", symptoms)
        \/ \E input \in RenalInputs : call = LibCall("RENAL_DOSING_CHECK", input)

\* a program that has loaded the modules and calls one exported function
InitLib ==
    /\ LibCalls
    /\ patient_data = EmptyObject
    /\ pc = "DONE"
    /\ all_alerts = <<>>
    /\ function_results = EmptyObject
    /\ timing = EmptyObject
    /\ result = EmptyObject
    /\ now = 0
    /\ today = MaxDay
    /\ unknown_drugs = [ sessionLogged |-> {}, logFile |-> <<>> ]
    /\ calls = 0
    /\ previous = [ result |-> EmptyObject, today |-> MaxDay ]

\* the call of fn returns ret; nothing of the engine's state is touched
Returns(fn, ret) ==
    /\ call.fn = fn
    /\ ~call.done
    /\ call' = [ call EXCEPT !.ret = ret, !.done = TRUE ]
    /\ UNCHANGED << patient_data, pc, all_alerts, function_results, timing, result, now,
                    today, calls, previous >>

CallNormEffectTag ==
    /\ Returns("normEffectTag", normEffectTag(call.arg))
    /\ UNCHANGED unknown_drugs

CallIsValidEffect ==
    /\ Returns("isValidEffect", isValidEffect(call.arg))
    /\ UNCHANGED unknown_drugs

\* getDrugEffects notifies the tracker of a name it cannot resolve
CallGetDrugEffects ==
    /\ Returns("getDrugEffects", getDrugEffects(call.arg))
    /\ unknown_drugs' =
           IF reportsUnknown(call.arg)
           THEN logUnknownDrug(unknown_drugs, call.arg, <<"B","E","E","R","S","_","D","R","U","G","_","E","F","F","E","C","T","S">>, now)
           ELSE unknown_drugs

CallGetACBScore ==
    /\ Returns("getACBScore", getACBScore(call.arg))
    /\ UNCHANGED unknown_drugs

CallDeriveConditionsFromICD ==
    /\ Returns("deriveConditionsFromICD", deriveConditionsFromICD(call.arg))
    /\ UNCHANGED unknown_drugs

CallGetContraindicatedEffects ==
    /\ Returns("getContraindicatedEffects", getContraindicatedEffects(call.arg))
    /\ UNCHANGED unknown_drugs

CallBeers ==
    /\ Returns("BEERS_CRITERIA_CHECK", BEERS_CRITERIA_CHECK(call.arg))
    /\ unknown_drugs' =
           IF /\ Num(call.arg.patient_age) >= 65
              /\ call.arg.conditions.array
              /\ call.arg.medications.array
           THEN BeersUnknownLog(unknown_drugs, call.arg.medications.items, 1, now)
           ELSE unknown_drugs

CallIdentifyToxidrome ==
    /\ Returns("identifyToxidrome", identifyToxidrome(call.arg))
    /\ UNCHANGED unknown_drugs

CallRenal ==
    /\ Returns("RENAL_DOSING_CHECK", RENAL_DOSING_CHECK(call.arg))
    /\ UNCHANGED unknown_drugs

NextLib ==
    \/ CallNormEffectTag
    \/ CallIsValidEffect
    \/ CallGetDrugEffects
    \/ CallGetACBScore
    \/ CallDeriveConditionsFromICD
    \/ CallGetContraindicatedEffects
    \/ CallBeers
    \/ CallIdentifyToxidrome
    \/ CallRenal

SpecLib == InitLib /\ [][NextLib]_vars


\* ------------------------------------------------------------------------
\* The unknown-drug tracker over the life of its log file: notifications by
\* one process at a time, and restarts of the process
\* ------------------------------------------------------------------------
MaxNotes == 3

\* a process that has loaded the tracker: nothing is logged yet; call.arg
\* holds the notifications made so far, call.ret the log file before the last
InitTracker ==
    /\ call = [ fn |-> "logUnknownDrug", arg |-> <<>>, ret |-> <<>>, done |-> TRUE ]
    /\ patient_data = EmptyObject
    /\ pc = "DONE"
    /\ all_alerts = <<>>
    /\ function_results = EmptyObject
    /\ timing = EmptyObject
    /\ result = EmptyObject
    /\ now = 0
    /\ today = MaxDay
    /\ unknown_drugs = [ sessionLogged |-> {}, logFile |-> <<>> ]
    /\ calls = 0
    /\ previous = [ result |-> EmptyObject, today |-> MaxDay ]

\* logUnknownDrug(drugName, context) is called with a name as a caller may
\* write it and the identifier of the calling function
Notify ==
    /\ call.fn = "logUnknownDrug"
    /\ Len(call.arg) < MaxNotes
    /\ \E drugName \in { <<"X","y","z","a","l">>, <<" ","x","y","z","a","l"," ">>, <<"z","z","z","q","u","i","l">>, <<"V","i","t","a","m","i","n"," ","D","3">>, NullStr },
          context \in { <<"B","E","E","R","S","_","D","R","U","G","_","E","F","F","E","C","T","S">>, <<"O","P","I","O","I","D","_","N","A","M","E","S">> } :
           /\ unknown_drugs' = logUnknownDrug(unknown_drugs, drugName, context, now)
           /\ call' = [ call EXCEPT !.arg = Append(@, << drugName, context >>),
                                    !.ret = unknown_drugs.logFile ]
    /\ UNCHANGED << patient_data, pc, all_alerts, function_results, timing, result, now,
                    today, calls, previous >>

\* the process ends and another starts: the module is loaded again with an
\* empty sessionLogged, the log file stays
Restart ==
    /\ call.fn = "logUnknownDrug"
    /\ unknown_drugs.sessionLogged # {}
    /\ unknown_drugs' = [ unknown_drugs EXCEPT !.sessionLogged = {} ]
    /\ UNCHANGED << call, patient_data, pc, all_alerts, function_results, timing, result,
                    now, today, calls, previous >>

NextTracker == Notify \/ Restart

SpecTracker == InitTracker /\ [][NextTracker]_vars
\* ------------------------------------------------------------------------
\* Properties of the knowledge base and of the exported functions
\* ------------------------------------------------------------------------
\* C11: every effect tag that getDrugEffects returns for a drug name, and
\* every avoid-effect tag of the conditions used for matching, is a member of
\* ALLOWED_EFFECTS: none is in alias form or outside the vocabulary
C11_TagsCanonical ==
    /\ (call.fn = "getDrugEffects" /\ call.done) /\ call.ret # NotText =>
           \A k \in 1..Len(call.ret) : InSeq(Spell[call.ret[k]], ALLOWED_EFFECTS)
    /\ (call.fn = "getContraindicatedEffects" /\ call.done) =>
           \A k \in 1..Len(call.ret.avoidEffects) :
               InSeq(Spell[call.ret.avoidEffects[k]], ALLOWED_EFFECTS)

\* C12: normEffectTag returns a string for every input and is idempotent; an
\* alias or a canonical tag maps to its canonical tag, any other text to its
\* trimmed lower-case form, which isValidEffect rejects; isValidEffect(x)
\* holds exactly when normEffectTag(x) is in ALLOWED_EFFECTS
C12_NormTotalIdempotent ==
    LET \* the declared spellings: canonical tags, aliases, lower-cased aliases
        DeclaredTag(x) ==
            \E i \in 1..Len(EFFECTS_VOCABULARY) :
                \/ x = EFFECTS_VOCABULARY[i].tag
                \/ \E k \in 1..Len(EFFECTS_VOCABULARY[i].aliases) :
                       \/ x = EFFECTS_VOCABULARY[i].aliases[k]
                       \/ x = toLowerCase(EFFECTS_VOCABULARY[i].aliases[k])
    IN  /\ (call.fn = "normEffectTag" /\ call.done) =>
               /\ IsText(call.ret)
               /\ normEffectTag(call.ret) = call.ret
               /\ IsText(call.arg) /\ DeclaredTag(trim(call.arg)) =>
                      /\ InSeq(call.ret, ALLOWED_EFFECTS)
                      /\ toLowerCase(trim(call.arg)) = call.ret
               /\ IsText(call.arg) /\ ~DeclaredTag(trim(call.arg)) =>
                      /\ call.ret = toLowerCase(trim(call.arg))
                      /\ ~isValidEffect(call.arg)
        /\ (call.fn = "isValidEffect" /\ call.done) =>
               call.ret = InSeq(normEffectTag(call.arg), ALLOWED_EFFECTS)

\* the row a resolution by the stated order answers from: the row of the key
\* equal to the name, else the first row whose key is part of the name or
\* holds it; 0 if there is none
Resolved(table, name) ==
    LET partial == { k \in 1..Len(table) :
                       includes(name, table[k].drug) \/ includes(table[k].drug, name) }
    IN  IF \E k \in 1..Len(table) : table[k].drug = name
        THEN CHOOSE k \in 1..Len(table) : table[k].drug = name
        ELSE IF partial = {} THEN 0
        ELSE CHOOSE k \in partial : \A j \in partial : k <= j

\* C13: getDrugEffects and getACBScore answer from the entry of the key equal
\* to the trimmed lower-cased name, even when an earlier key is part of the
\* name, and otherwise from the first key in declaration order that is part
\* of the name or holds it
C13_ResolutionOrder ==
    LET name == trim(toLowerCase(OrEmpty(call.arg)))
    IN  /\ (call.fn = "getDrugEffects" /\ call.done) /\ Resolved(DRUG_EFFECTS, name) # 0 =>
               call.ret = DRUG_EFFECTS[Resolved(DRUG_EFFECTS, name)].effects
        /\ (call.fn = "getACBScore" /\ call.done) /\ Resolved(ACB_SCORES, name) # 0 =>
               call.ret = ACB_SCORES[Resolved(ACB_SCORES, name)].score

\* getDrugEffects has answered for a name equal to a key, an earlier key with
\* another entry being part of the name
C13_Witness ==
    LET name == trim(toLowerCase(OrEmpty(call.arg)))
    IN  /\ (call.fn = "getDrugEffects" /\ call.done)
        /\ \E k \in 1..Len(DRUG_EFFECTS) : \E j \in 1..(k - 1) :
               /\ DRUG_EFFECTS[k].drug = name
               /\ includes(name, DRUG_EFFECTS[j].drug)
               /\ DRUG_EFFECTS[j].effects # DRUG_EFFECTS[k].effects
               /\ call.ret = DRUG_EFFECTS[k].effects


\* C14: a medication whose name is absent from the knowledge base never makes
\* the evaluation throw, has the empty effect set and ACB 0, adds nothing to
\* the ACB total and is never the drug of a BEERS_DISEASE_INTERACTION alert
C14_UnknownDrugSafe ==
    LET \* no key of DRUG_EFFECTS or ACB_SCORES equals the trimmed lower-cased
        \* name, is part of it or holds it
        AbsentName(name) ==
            /\ Resolved(DRUG_EFFECTS, trim(toLowerCase(OrEmpty(name)))) = 0
            /\ Resolved(ACB_SCORES, trim(toLowerCase(OrEmpty(name)))) = 0
    IN  /\ (call.fn = "getDrugEffects" /\ call.done) /\ AbsentName(call.arg) => call.ret = <<>>
        /\ (call.fn = "getACBScore" /\ call.done) /\ AbsentName(call.arg) => call.ret = 0
        /\ /\ (call.fn = "BEERS_CRITERIA_CHECK" /\ call.done)
           /\ Num(call.arg.patient_age) >= 65
           /\ call.arg.conditions.array
           /\ call.arg.medications.array
           /\ \A i \in 1..Len(call.arg.medications.items) :
                  call.arg.medications.items[i].name # NotAString
           /\ \E i \in 1..Len(call.arg.medications.items) :
                  AbsentName(call.arg.medications.items[i].name)
           => /\ call.ret.ok
              /\ call.ret.metadata.acb_score =
                     SumACB(SelectSeq(call.arg.medications.items,
                                      LAMBDA m : ~AbsentName(m.name)), 1)
              /\ \A k \in 1..Len(call.ret.alerts) :
                     call.ret.alerts[k].alert_code = "BEERS_DISEASE_INTERACTION" =>
                         ~AbsentName(call.ret.alerts[k].drug)

\* C15: deriveConditionsFromICD returns, without duplicates, exactly the
\* condition keys with a grouper prefix (three characters or more) that begins
\* the normalised form of an input code; adding a code removes no condition,
\* a code activates every grouper it matches (I5032 heart_failure, G311
\* dementia, M80 falls_history_fracture_risk and osteoporosis), and a code
\* shorter than three characters contributes nothing
C15_DerivedConditions ==
    call.fn = "deriveConditionsFromICD" /\ call.done =>
        LET matches(g, code) ==
                \E k \in 1..Len(CONDITION_GROUPERS[g].icdPrefixes) :
                    LET p == CONDITION_GROUPERS[g].icdPrefixes[k]
                    IN  Len(p) >= 3 /\ Len(p) <= Len(code) /\ SubSeq(code, 1, Len(p)) = p
            ConditionsOf(codes) ==
                { CONDITION_GROUPERS[g].conditionKey : g \in
                    { g \in 1..Len(CONDITION_GROUPERS) :
                        \E i \in 1..Len(codes) : matches(g, normICD(codes[i])) } }
        IN  /\ \A i, j \in 1..Len(call.ret) : call.ret[i] = call.ret[j] => i = j
            /\ { call.ret[i] : i \in 1..Len(call.ret) } = ConditionsOf(call.arg)
            /\ \A more \in { <<"I","5","0","3","2">>, <<"m","8","0">>, <<"G","2","0">>, <<"I","5">>, NullStr } :
                   \A i \in 1..Len(call.ret) :
                       InSeq(call.ret[i], deriveConditionsFromICD(Append(call.arg, more)))
            /\ call.ret = deriveConditionsFromICD(
                              SelectSeq(call.arg, LAMBDA c : Len(normICD(c)) >= 3))
            /\ call.arg = << <<"I","5","0","3","2">> >> => call.ret = << "heart_failure" >>
            /\ call.arg = << <<"G","3","1","1">> >> => call.ret = << "dementia" >>
            /\ call.arg = << <<"m","8","0">> >> =>
                   { call.ret[i] : i \in 1..Len(call.ret) } =
                       { "falls_history_fracture_risk", "osteoporosis" }

\* the conditions of a code that two groupers list and of a code of two
\* characters have been derived
C15_Witness ==
    /\ (call.fn = "deriveConditionsFromICD" /\ call.done)
    /\ call.arg = << <<"m","8","0">>, <<"I","5">> >>
    /\ Len(call.ret) = 2

\* C16: for every medication d and every condition c of the patient, derived
\* from a diagnosis code or given as a legacy string: if the effects of d meet
\* the avoid-effects of c and the name of d contains no entry of c's own
\* exclusion list, an interaction of d with c is recorded with exactly the
\* intersecting effects; an exclusion of another condition does not suppress it
C16_InteractionPerCondition ==
    (call.fn = "BEERS_CRITERIA_CHECK" /\ call.done) /\ call.ret.ok /\ call.ret.metadata.beers_applies =>
        LET derived == deriveConditionsFromICD(call.arg.icd_codes)
            \* the avoid-effect entries of the patient's conditions: those
            \* derived from the diagnosis codes, then the legacy strings
            entries == SelectSeq(ICD_CONDITION_EFFECTS, LAMBDA e : InSeq(e.condition, derived))
                       \o SelectSeq(CONDITION_AVOID_EFFECTS, LAMBDA e :
                              InSeq(e.condition, call.arg.conditions.items))
            drugs == [i \in 1..Len(call.arg.medications.items) |->
                         OrEmpty(call.arg.medications.items[i].name)]
            effects == [i \in 1..Len(drugs) |-> getDrugEffects(drugs[i])]
            \* alert a is a Beers interaction of drug i that names condition c
            \* and reports exactly the effects that the conditions it names avoid
            RecordsInteraction(a, i, c) ==
                LET said == SubSeq(a.message, 3, Len(a.message))
                    named == SelectSeq(entries, LAMBDA e : InSeq(e.condition, said))
                    avoided == Concat([k \in 1..Len(named) |-> named[k].effects])
                IN  /\ a.alert_code = "BEERS_DISEASE_INTERACTION"
                    /\ a.drug = drugs[i]
                    /\ InSeq(entries[c].condition, said)
                    /\ { said[k] : k \in 1..Len(said) }
                           \ { named[k].condition : k \in 1..Len(named) }
                       = { e \in { effects[i][k] : k \in 1..Len(effects[i]) } :
                               InSeq(e, avoided) }
        IN  \A i \in 1..Len(drugs) : \A c \in 1..Len(entries) :
                /\ Filter(effects[i], entries[c].effects) # <<>>
                /\ ~excludesDrug(entries[c], drugs[i])
                => \E k \in 1..Len(call.ret.alerts) :
                       RecordsInteraction(call.ret.alerts[k], i, c)

\* C17: when BEERS_CRITERIA_CHECK evaluates a patient of 65 or more, every
\* medication's ACB score is in 0..3, metadata.acb_score is the sum of the
\* scores of all medications, a BEERS_ACB_HIGH alert is emitted exactly when
\* that sum is 3 or more, and three medications of ACB 3 give 9 and the alert
C17_AcbTotal ==
    /\ (call.fn = "BEERS_CRITERIA_CHECK" /\ call.done)
    /\ call.ret.ok
    /\ call.arg.patient_age >= 65
    => LET meds == call.arg.medications.items
           row == [i \in 1..Len(meds) |->
                      Resolved(ACB_SCORES, trim(toLowerCase(OrEmpty(meds[i].name))))]
           score == [i \in 1..Len(meds) |->
                        IF row[i] = 0 THEN 0 ELSE ACB_SCORES[row[i]].score]
           sum == Cardinality({ i \in 1..Len(meds) : score[i] = 1 })
                  + 2 * Cardinality({ i \in 1..Len(meds) : score[i] = 2 })
                  + 3 * Cardinality({ i \in 1..Len(meds) : score[i] = 3 })
           high == { k \in 1..Len(call.ret.alerts) :
                       call.ret.alerts[k].alert_code = "BEERS_ACB_HIGH" }
       IN  /\ \A i \in 1..Len(meds) :
                  /\ score[i] \in 0..3
                  /\ getACBScore(OrEmpty(meds[i].name)) = score[i]
           /\ call.ret.metadata.acb_score = sum
           /\ high # {} <=> sum >= 3
           /\ Cardinality(high) <= 1
           /\ Len(meds) = 3 /\ (\A i \in 1..3 : score[i] = 3) =>
                  call.ret.metadata.acb_score = 9 /\ high # {}

\* three medications of ACB 3 have been evaluated: the score is 9 and the
\* burden alert is there
C17_Witness ==
    /\ (call.fn = "BEERS_CRITERIA_CHECK" /\ call.done)
    /\ call.ret.ok
    /\ call.arg.patient_age >= 65
    /\ Len(call.arg.medications.items) = 3
    /\ \A i \in 1..3 : getACBScore(OrEmpty(call.arg.medications.items[i].name)) = 3
    /\ call.ret.metadata.acb_score = 9
    /\ \E k \in 1..Len(call.ret.alerts) : call.ret.alerts[k].alert_code = "BEERS_ACB_HIGH"

\* C18: identifyToxidrome returns exactly the toxidromes with two or more of
\* their defined symptoms in the input, the case of the input ignored, each
\* once and with confidence = (its defined symptoms present in the input) /
\* (its defined symptoms), by descending confidence; every defined symptom
\* counts when the input holds it
C18_ToxidromesMatched ==
    (call.fn = "identifyToxidrome" /\ call.done) =>
        LET present == [ t \in 1..Len(TOXIDROMES) |->
                { k \in 1..Len(TOXIDROMES[t].symptoms) :
                    \E i \in 1..Len(call.arg) :
                        toLowerCase(call.arg[i]) = toLowerCase(TOXIDROMES[t].symptoms[k]) } ]
        IN  /\ \A t \in 1..Len(TOXIDROMES) :
                   Cardinality(present[t]) >= 2 <=>
                       \E p \in 1..Len(call.ret) :
                           call.ret[p].toxidrome = TOXIDROMES[t].toxidrome
            /\ \A p, q \in 1..Len(call.ret) :
                   call.ret[p].toxidrome = call.ret[q].toxidrome => p = q
            /\ \A p \in 1..Len(call.ret) : \A t \in 1..Len(TOXIDROMES) :
                   call.ret[p].toxidrome = TOXIDROMES[t].toxidrome =>
                       call.ret[p].confidence.num * Len(TOXIDROMES[t].symptoms)
                           = Cardinality(present[t]) * call.ret[p].confidence.den
            /\ \A p \in 1..(Len(call.ret) - 1) :
                   call.ret[p].confidence.num * call.ret[p + 1].confidence.den
                       >= call.ret[p + 1].confidence.num * call.ret[p].confidence.den

\* C19: no rule module throws when an optional field of its input is missing
\* or null (egfr, patient_age, active_illness, conditions, icd_codes,
\* recent_maoi_use, ppi_duration_weeks, a medication's class or dose): every
\* module the evaluation has run returned {alerts, metadata}, and a module
\* without the clinical input it needs (OPIOID_SAFETY_CHECK with no opioid)
\* returned no alert
C19_ModulesTolerateMissing ==
    LET meds == patient_data.current_medications
        \* what is given has the documented type: the medications are a list,
        \* names and doses are text or null, the MAOI drug is text or null
        typed == /\ meds.array
                 /\ \A i \in 1..Len(meds.items) :
                        meds.items[i].name # NotAString /\ meds.items[i].dose # NotAString
                 /\ patient_data.recent_maoi_use.drug # NotAString
    IN  typed =>
            \A k \in 1..Len(MODULES) :
                MODULES[k] \in DOMAIN timing =>
                    /\ ~Threw(MODULES[k], patient_data, today)
                    /\ MODULES[k] = "opioid" /\ opioidMeds(meds.items) = <<>> =>
                           InvokeOpioid(patient_data).alerts = <<>>

InitRace ==
    /\ call = [ fn |-> "processes", arg |-> [ p \in {1, 2} |-> <<>> ], ret |-> <<>>,
                done |-> TRUE ]
    /\ patient_data = EmptyObject
    /\ pc = "DONE"
    /\ all_alerts = <<>>
    /\ function_results = EmptyObject
    /\ timing = EmptyObject
    /\ result = EmptyObject
    /\ now = 0
    /\ today = MaxDay
    /\ unknown_drugs = [ sessionLogged |-> [ p \in {1, 2} |-> {} ], logFile |-> <<>> ]
    /\ calls = 0
    /\ previous = [ result |-> EmptyObject, today |-> MaxDay ]

\* process p calls logUnknownDrug, which runs up to and including its
\* readFileSync, the test of alreadyLogged and existing.push(entry); a call
\* that returns before it writes is over at once
ReadLog ==
    /\ call.fn = "processes"
    /\ calls < MaxNotes
    /\ \E p \in {1, 2},
          drugName \in { <<"X","y","z","a","l">>, <<"z","z","z","q","u","i","l">>, <<"V","i","t","a","m","i","n"," ","D","3">>, NullStr },
          context \in { <<"B","E","E","R","S","_","D","R","U","G","_","E","F","F","E","C","T","S">> } :
           /\ call.arg[p] = <<>>
           /\ LET mine == [ sessionLogged |-> unknown_drugs.sessionLogged[p],
                            logFile |-> unknown_drugs.logFile ]
                  after == logUnknownDrug(mine, drugName, context, now)
              IN  /\ unknown_drugs' = [ unknown_drugs EXCEPT
                                            !.sessionLogged[p] = after.sessionLogged ]
                  /\ call' = IF after.logFile = mine.logFile THEN call
                             ELSE [ call EXCEPT
                                      !.arg[p] = after.logFile,
                                      !.ret = Append(@, << p, after.logFile[Len(after.logFile)] >>) ]
    /\ calls' = calls + 1
    /\ UNCHANGED << patient_data, pc, all_alerts, function_results, timing, result, now,
                    today, previous >>

\* the writeFileSync of process p replaces the file by what p read and pushed
WriteLog ==
    /\ call.fn = "processes"
    /\ \E p \in {1, 2} :
           /\ call.arg[p] # <<>>
           /\ unknown_drugs' = [ unknown_drugs EXCEPT !.logFile = call.arg[p] ]
           /\ call' = [ call EXCEPT !.arg[p] = <<>> ]
    /\ UNCHANGED << patient_data, pc, all_alerts, function_results, timing, result, now,
                    today, calls, previous >>

NextRace == ReadLog \/ WriteLog

SpecRace == InitRace /\ [][NextRace]_vars

\* ------------------------------------------------------------------------
\* Properties of the tracker shared by two processes, of the engine's result
\* and of the renal and Beers modules
\* ------------------------------------------------------------------------
\* C21: duplicate suppression is exact inside one process and only there: a
\* process pushes an entry for a pair at most once, whatever became of the
\* entry in the file; so a pair whose entry was overwritten by the other
\* process (C21_LostUpdate) is not written again by the process that
\* notified it
C21_ExactWithinProcess ==
    call.fn = "processes" =>
        \A i, j \in 1..Len(call.ret) :
            ( /\ i < j
              /\ call.ret[i][1] = call.ret[j][1] )
            => ~ ( /\ call.ret[i][2].drug = call.ret[j][2].drug
                   /\ call.ret[i][2].context = call.ret[j][2].context )

\* process p pushed an entry for a pair and has written its file, no write is
\* pending, the pair is in p's session set and the log file does not hold it
C21_LostUpdate ==
    /\ call.fn = "processes"
    /\ \A p \in {1, 2} : call.arg[p] = <<>>
    /\ \E i \in 1..Len(call.ret) :
          LET p == call.ret[i][1]
              entry == call.ret[i][2]
          IN  /\ (entry.drug \o <<":">> \o entry.context) \in unknown_drugs.sessionLogged[p]
              /\ ~ \E k \in 1..Len(unknown_drugs.logFile) :
                      /\ unknown_drugs.logFile[k].drug = entry.drug
                      /\ unknown_drugs.logFile[k].context = entry.context

\* C22: a patient under 65 with no diagnosis codes whose medications no rule
\* flags (every module that the engine runs for the patient returns, and
\* returns no alert) gets alert_count = 0, critical_count = 0, high_count = 0,
\* has_blocking_alerts = false and no alerts, and the Beers module is not
\* invoked: function_results has no beers entry
C22_CleanPatient ==
    ( /\ pc = "DONE"
      /\ call = NoCall
      /\ patient_data.patient_age # NullNum
      /\ patient_data.patient_age < 65
      /\ patient_data.icd_codes = <<>>
      /\ patient_data.current_medications.array
      /\ \A i \in 1..5 :
            LET r == Invoke(MODULES[i], patient_data, today)
            IN  Applicable(MODULES[i], patient_data) => (r.ok /\ r.alerts = <<>>) )
    => ( /\ result.alert_count = 0
         /\ result.critical_count = 0
         /\ result.high_count = 0
         /\ ~ result.has_blocking_alerts
         /\ result.alerts = <<>>
         /\ "beers" \notin DOMAIN result.function_results )

\* the patient of the repository's clean-patient test with a renal function
\* for which the renal module runs: 55 years, lisinopril alone, no alert
C22_Witness ==
    /\ pc = "DONE"
    /\ call = NoCall
    /\ patient_data.patient_age = 55
    /\ patient_data.icd_codes = <<>>
    /\ patient_data.current_medications.array
    /\ Len(patient_data.current_medications.items) = 1
    /\ patient_data.current_medications.items[1].name = <<"l","i","s","i","n","o","p","r","i","l">>
    /\ "renal" \in DOMAIN result.function_results
    /\ "triple" \in DOMAIN result.function_results
    /\ "beers" \notin DOMAIN result.function_results
    /\ result.alert_count = 0
    /\ result.alerts = <<>>

\* C23: in what RENAL_DOSING_CHECK returns for a given eGFR, every medication
\* whose name holds the drug of a renal rule has at most one threshold alert;
\* the alert is there when egfr is below an egfr_max of the rule (the first
\* rule of the table the name holds) and is the one of the smallest such
\* egfr_max, and there is none when egfr is at or above every egfr_max.
\* Metformin below 30 has a CRITICAL RENAL_METFORMIN_CONTRAINDICATED alert,
\* metformin at 60 or more has no alert.
C23_MostRestrictiveThreshold ==
    ( /\ call.fn = "RENAL_DOSING_CHECK"
      /\ call.done
      /\ call.ret.ok
      /\ call.arg.egfr # NullNum )
    => LET egfr == call.arg.egfr
           meds == call.arg.medications.items
           alerts == call.ret.alerts
       IN  \A i \in 1..Len(meds) :
             LET name == meds[i].name
                 matching == { r \in 1..Len(RENAL_DRUG_RULES) :
                                 includes(toLowerCase(OrEmpty(name)), RENAL_DRUG_RULES[r].drug) }
                 taken == { n \in 1..Len(meds) : meds[n].name = name }
                 ofMed == SelectSeq(alerts, LAMBDA a :
                              a.drug = name /\ a.message[1] = "renal threshold")
             IN  matching # {} =>
                   LET rule == RENAL_DRUG_RULES[MinOf(matching)]
                       applicable == { t \in 1..Len(rule.thresholds) :
                                         egfr < rule.thresholds[t].egfr_max }
                   IN  /\ Len(ofMed) <= Cardinality(taken)
                       /\ applicable = {} => Len(ofMed) = 0
                       /\ applicable # {} =>
                            LET t == CHOOSE t \in applicable : \A u \in applicable :
                                       rule.thresholds[t].egfr_max <= rule.thresholds[u].egfr_max
                            IN  /\ Len(ofMed) = Cardinality(taken)
                                /\ \A k \in 1..Len(ofMed) :
                                      /\ ofMed[k].severity = rule.thresholds[t].severity
                                      /\ ofMed[k].message[2] = rule.thresholds[t].action
                                      /\ ofMed[k].message[3] = rule.thresholds[t].egfr_max
                       /\ ( /\ rule.drug = <<"m","e","t","f","o","r","m","i","n">>
                            /\ egfr < 30 )
                          => \E k \in 1..Len(alerts) :
                                /\ alerts[k].drug = name
                                /\ alerts[k].severity = "CRITICAL"
                                /\ alerts[k].alert_code = "RENAL_METFORMIN_CONTRAINDICATED"
                       /\ ( /\ rule.drug = <<"m","e","t","f","o","r","m","i","n">>
                            /\ egfr >= 60 )
                          => ~ \E k \in 1..Len(alerts) : alerts[k].drug = name

\* metformin and gabapentin at eGFR 20: one alert each, metformin's from the
\* threshold 30 of its three applicable ones, gabapentin's from 30 of two
C23_Witness ==
    /\ call.fn = "RENAL_DOSING_CHECK"
    /\ call.done
    /\ call.ret.ok
    /\ call.arg.egfr = 20
    /\ Len(call.arg.medications.items) = 2
    /\ call.arg.medications.items[1].name = <<"m","e","t","f","o","r","m","i","n">>
    /\ call.arg.medications.items[2].name = <<"G","a","b","a","p","e","n","t","i","n"," ","3","0","0","m","g">>
    /\ Len(call.ret.alerts) = 2
    /\ call.ret.alerts[1].severity = "CRITICAL"
    /\ call.ret.alerts[1].message = <<"renal threshold", "CONTRAINDICATED", 30>>
    /\ call.ret.alerts[2].message = <<"renal threshold", "REDUCE", 30>>

\* C30: a threshold alert of RENAL_DOSING_CHECK has the alert code declared
\* on the threshold it was taken from, and RENAL_GABAPENTINOID_ADJUST when
\* that threshold declares none, whatever the drug. The thresholds without a
\* code are the MODERATE ones at egfr_max 60 of metformin, gabapentin,
\* pregabalin, ibuprofen and naproxen.
C30_ThresholdAlertCode ==
    /\ { RENAL_DRUG_RULES[r].drug : r \in { r \in 1..Len(RENAL_DRUG_RULES) :
            \E t \in 1..Len(RENAL_DRUG_RULES[r].thresholds) :
                RENAL_DRUG_RULES[r].thresholds[t].code = "" } }
       = { <<"m","e","t","f","o","r","m","i","n">>, <<"g","a","b","a","p","e","n","t","i","n">>, <<"p","r","e","g","a","b","a","l","i","n">>, <<"i","b","u","p","r","o","f","e","n">>, <<"n","a","p","r","o","x","e","n">> }
    /\ \A r \in 1..Len(RENAL_DRUG_RULES) : \A t \in 1..Len(RENAL_DRUG_RULES[r].thresholds) :
          LET threshold == RENAL_DRUG_RULES[r].thresholds[t]
          IN  threshold.code = "" =>
                /\ threshold.severity = "MODERATE"
                /\ threshold.egfr_max = 60
                /\ threshold.action \in {"CAUTION", "REDUCE"}
    /\ ( /\ call.fn = "RENAL_DOSING_CHECK"
         /\ call.done
         /\ call.ret.ok )
       => \A k \in 1..Len(call.ret.alerts) :
            LET a == call.ret.alerts[k]
                matching == { r \in 1..Len(RENAL_DRUG_RULES) :
                                includes(toLowerCase(OrEmpty(a.drug)), RENAL_DRUG_RULES[r].drug) }
            IN  a.message[1] = "renal threshold" =>
                  \E t \in 1..Len(RENAL_DRUG_RULES[MinOf(matching)].thresholds) :
                     LET threshold == RENAL_DRUG_RULES[MinOf(matching)].thresholds[t]
                     IN  /\ threshold.egfr_max = a.message[3]
                         /\ a.alert_code = IF threshold.code = ""
                                           THEN "RENAL_GABAPENTINOID_ADJUST"
                                           ELSE threshold.code

\* metformin at eGFR 50 is reported under the gabapentinoid code
C30_Witness ==
    /\ call.fn = "RENAL_DOSING_CHECK"
    /\ call.done
    /\ call.ret.ok
    /\ call.arg.egfr = 50
    /\ Len(call.arg.medications.items) = 1
    /\ call.arg.medications.items[1].name = <<"m","e","t","f","o","r","m","i","n">>
    /\ Len(call.ret.alerts) = 1
    /\ call.ret.alerts[1].drug = <<"m","e","t","f","o","r","m","i","n">>
    /\ call.ret.alerts[1].severity = "MODERATE"
    /\ call.ret.alerts[1].message = <<"renal threshold", "CAUTION", 60>>
    /\ call.ret.alerts[1].alert_code = "RENAL_GABAPENTINOID_ADJUST"

\* C24: the result holds at most one alert for every key (alert_code, drug
\* in lower case, or the empty string without a drug). drugs_involved is not
\* part of the key: two alerts of one module with the same code and no drug
\* are one alert in the result, whatever their drugs_involved, and so are
\* the SYSTEM_FUNCTION_ERROR alerts of several failing modules.
C24_OneAlertPerKey ==
    ( /\ pc = "DONE"
      /\ call = NoCall )
    => LET key(a) == << a.alert_code, toLowerCase(OrEmpty(a.drug)) >>
           withCode(code) == { n \in 1..Len(result.alerts) :
                                 /\ result.alerts[n].alert_code = code
                                 /\ OrEmpty(result.alerts[n].drug) = <<>> }
           ran == { k \in 1..Len(MODULES) : Applicable(MODULES[k], patient_data) }
       IN  /\ \A i, j \in 1..Len(result.alerts) :
                 i # j => key(result.alerts[i]) # key(result.alerts[j])
           /\ \A k \in ran :
                 LET r == Invoke(MODULES[k], patient_data, today)
                 IN  IF r.ok
                     THEN \A p \in 1..Len(r.alerts) :
                              OrEmpty(r.alerts[p].drug) = <<>>
                              => Cardinality(withCode(r.alerts[p].alert_code)) = 1
                     ELSE Cardinality(withCode("SYSTEM_FUNCTION_ERROR")) = 1

\* sertraline with tramadol and sumatriptan: the serotonin module returns
\* two SEROTONIN_MODERATE_RISK alerts that name different drugs, the result
\* holds one
C24_Witness ==
    /\ pc = "DONE"
    /\ call = NoCall
    /\ LET r == InvokeSerotonin(patient_data, today)
       IN  /\ r.ok
           /\ \E p, q \in 1..Len(r.alerts) :
                 /\ p < q
                 /\ r.alerts[p].alert_code = "SEROTONIN_MODERATE_RISK"
                 /\ r.alerts[q].alert_code = "SEROTONIN_MODERATE_RISK"
                 /\ r.alerts[p].drug = NullStr
                 /\ r.alerts[q].drug = NullStr
                 /\ r.alerts[p].drugs_involved # r.alerts[q].drugs_involved
                 /\ \E n \in 1..Len(result.alerts) :
                       result.alerts[n] = WithSource(r.alerts[p], "SEROTONIN")
    /\ Cardinality({ n \in 1..Len(result.alerts) :
                       result.alerts[n].alert_code = "SEROTONIN_MODERATE_RISK" }) = 1

\* C25: the alerts of the result do not depend on the order in which the
\* modules are invoked: for every permutation of the six module blocks,
\* merging their contributions in that order, deduplicating and sorting gives
\* the alerts of the result, up to their order, and the same counts, whichever
\* modules throw
C25_OrderIndependent ==
    ( /\ pc = "DONE"
      /\ call = NoCall )
    => LET contribution ==
               [ k \in 1..Len(MODULES) |->
                   LET r == Invoke(MODULES[k], patient_data, today)
                   IN  IF ~Applicable(MODULES[k], patient_data) THEN <<>>
                       ELSE IF r.ok
                       THEN [ i \in 1..Len(r.alerts) |-> WithSource(r.alerts[i], SOURCE[MODULES[k]]) ]
                       ELSE << SystemAlert(MODULES[k], r.error) >> ]
           alertsFor(order) ==
               SortBySeverity(
                   SeenValues(Concat([ n \in 1..Len(MODULES) |-> contribution[order[n]] ]),
                              1, <<>>),
                   <<>>)
       IN  \A order \in Permutations(1..Len(MODULES)) :
              LET alerts == alertsFor(order)
              IN  /\ { alerts[n] : n \in 1..Len(alerts) }
                     = { result.alerts[n] : n \in 1..Len(result.alerts) }
                  /\ Len(alerts) = result.alert_count
                  /\ CountSeverity(alerts, "CRITICAL") = result.critical_count
                  /\ CountSeverity(alerts, "HIGH") = result.high_count

\* C26: whenever the triple-whammy module returns, the result has a
\* TRIPLE_WHAMMY_PRESENT alert of severity HIGH exactly when the medication
\* list holds an ACE inhibitor, ARB or ARNI, a diuretic and an NSAID, be they
\* known by their class field or by their name alone (lisinopril, furosemide
\* and ibuprofen, the drugs of the usage example), and
\* metadata.has_triple_whammy is true exactly when the alert is raised
C26_TripleWhammyDetected ==
    ( /\ pc = "DONE"
      /\ call = NoCall
      /\ "triple" \in DOMAIN result.function_results )
    => LET meds == patient_data.current_medications.items
           named(m, drug) == m.name # NotAString /\ toLowerCase(OrEmpty(m.name)) = drug
           raas == \E i \in 1..Len(meds) :
                      meds[i].class \in {"ACE_inhibitor", "ARB", "ARNI"}
                      \/ named(meds[i], <<"l","i","s","i","n","o","p","r","i","l">>)
           diuretic == \E i \in 1..Len(meds) :
                      meds[i].class \in {"thiazide", "loop_diuretic", "K_sparing_diuretic"}
                      \/ named(meds[i], <<"f","u","r","o","s","e","m","i","d","e">>)
           nsaid == \E i \in 1..Len(meds) :
                      meds[i].class \in {"NSAID", "COX2_inhibitor"}
                      \/ named(meds[i], <<"i","b","u","p","r","o","f","e","n">>)
           raised == \E n \in 1..Len(result.alerts) :
                      /\ result.alerts[n].alert_code = "TRIPLE_WHAMMY_PRESENT"
                      /\ result.alerts[n].severity = "HIGH"
       IN  /\ raised <=> (raas /\ diuretic /\ nsaid)
           /\ result.function_results.triple.has_triple_whammy <=> raised

\* C27: no step of the engine changes patient_data, and the alerts that the
\* last step hands to the result are, each one that is not a
\* SYSTEM_FUNCTION_ERROR alert, in every field but source an alert that
\* exactly one module returned in this evaluation, with the label of that
\* module as source
C27_AlertsOnlyRelabelled ==
    [][ /\ patient_data' = patient_data
        /\ ( /\ pc = "SUMMARIZE"
             /\ call = NoCall )
           => /\ pc' = "DONE"
              /\ result'.alerts = all_alerts
              /\ \A n \in 1..Len(all_alerts) :
                   LET a == all_alerts[n]
                       returnedBy ==
                           { k \in 1..Len(MODULES) :
                               /\ Applicable(MODULES[k], patient_data)
                               /\ LET r == Invoke(MODULES[k], patient_data, today)
                                  IN  /\ r.ok
                                      /\ \E p \in 1..Len(r.alerts) :
                                            /\ DOMAIN r.alerts[p] = DOMAIN a \ {"source"}
                                            /\ \A f \in DOMAIN r.alerts[p] :
                                                  r.alerts[p][f] = a[f] }
                   IN  a.alert_code # "SYSTEM_FUNCTION_ERROR"
                       => /\ Cardinality(returnedBy) = 1
                          /\ \A k \in returnedBy : a.source = << SOURCE[MODULES[k]] >>
      ]_vars

\* a result with alerts of the renal and the Beers module, from which
\* deduplication has dropped an alert that the Beers module returned
C27_Witness ==
    /\ pc = "DONE"
    /\ call = NoCall
    /\ \A label \in {"RENAL", "BEERS"} :
          \E n \in 1..Len(result.alerts) : result.alerts[n].source = <<label>>
    /\ LET r == InvokeBeers(patient_data)
       IN  r.ok /\ Len(r.alerts) > Cardinality({ n \in 1..Len(result.alerts) :
                                                   result.alerts[n].source = <<"BEERS">> })

C29_NamelessMedicationResolves ==
    LET nameless == { <<>>, NullStr }
        untouched == unknown_drugs = [ sessionLogged |-> {}, logFile |-> <<>> ]
        first(table, name) ==
            LET exact == { k \in 1..Len(table) : table[k].drug = name }
                partial == { k \in 1..Len(table) :
                               includes(table[k].drug, name) \/ includes(name, table[k].drug) }
            IN  IF exact # {} THEN MinOf(exact) ELSE MinOf(partial)
        partOfKey(table, arg) ==
            /\ IsText(arg)
            /\ arg # <<>>
            /\ trim(toLowerCase(arg)) # <<>>
            /\ trim(toLowerCase(arg)) \notin InheritedKeys
            /\ \E k \in 1..Len(table) : includes(table[k].drug, trim(toLowerCase(arg)))
    IN  /\ DRUG_EFFECTS[1].drug = <<"d","i","p","h","e","n","h","y","d","r","a","m","i","n","e">>
        /\ PIM_DATABASE[1].drug = <<"d","i","p","h","e","n","h","y","d","r","a","m","i","n","e">>
        /\ ACB_SCORES[1].score = 3
        /\ ( call.fn = "getDrugEffects" /\ call.done )
           => /\ call.arg \in nameless
                 => call.ret = DRUG_EFFECTS[1].effects /\ untouched
              /\ partOfKey(DRUG_EFFECTS, call.arg)
                 => /\ call.ret = DRUG_EFFECTS[first(DRUG_EFFECTS, trim(toLowerCase(call.arg)))].effects
                    /\ untouched
        /\ ( call.fn = "getACBScore" /\ call.done )
           => /\ call.arg \in nameless => call.ret = ACB_SCORES[1].score
              /\ partOfKey(ACB_SCORES, call.arg)
                 => call.ret = ACB_SCORES[first(ACB_SCORES, trim(toLowerCase(call.arg)))].score
        /\ ( /\ call.fn = "BEERS_CRITERIA_CHECK"
             /\ call.done
             /\ call.arg.patient_age # NullNum
             /\ call.arg.patient_age >= 65
             /\ call.arg.conditions.array
             /\ call.arg.medications.array
             /\ Len(call.arg.medications.items) = 1
             /\ call.arg.medications.items[1].name \in nameless )
           => /\ call.ret.ok
              /\ \E n \in 1..Len(call.ret.alerts) :
                    /\ call.ret.alerts[n].alert_code = "BEERS_PIM_TABLE1"
                    /\ call.ret.alerts[n].drug = <<>>
                    /\ call.ret.alerts[n].severity =
                          IF PIM_DATABASE[1].severity = "AVOID" THEN "HIGH" ELSE "MODERATE"
              /\ \E n \in 1..Len(call.ret.alerts) :
                    call.ret.alerts[n].alert_code = "BEERS_ACB_HIGH"
              /\ call.ret.metadata.pim_count = 1
              /\ call.ret.metadata.acb_score = 3
              /\ untouched

\* BEERS_CRITERIA_CHECK has returned its two alerts for a patient of 70
\* whose only medication has no name
C29_Witness ==
    /\ call.fn = "BEERS_CRITERIA_CHECK"
    /\ call.done
    /\ call.arg.patient_age = 70
    /\ call.arg.medications.array
    /\ Len(call.arg.medications.items) = 1
    /\ call.arg.medications.items[1].name = NullStr
    /\ call.arg.icd_codes = <<>>
    /\ call.arg.conditions = ListOf(<<>>)
    /\ call.ret.ok
    /\ Len(call.ret.alerts) = 2
    /\ call.ret.alerts[1].alert_code = "BEERS_PIM_TABLE1"
    /\ call.ret.alerts[2].alert_code = "BEERS_ACB_HIGH"
    /\ unknown_drugs.logFile = <<>>
====
